---- MODULE Spec2Model ----
(***************************************************************************)
(* A model of AIScraper's organizer (the current version of organizer.ts,  *)
(* src/unnamed/part_004) with the file-name helpers of src/src/nameParser.ts*)
(*                                                                         *)
(* Three specifications share the variables:                               *)
(*   SpecCons  addToBlueprint folds followed by consolidateBlueprint       *)
(*   SpecSync  buildExistingState + generateLinks, run twice on one target *)
(*   SpecScan  scanDirectory with its chunked Promise.allSettled pipeline  *)
(*                                                                         *)
(* A JavaScript string is a sequence of one-character strings, so that     *)
(* replace(), trim(), padStart(), extname() and the regular expressions    *)
(* are computed character by character.                                    *)
(***************************************************************************)
EXTENDS Integers, Sequences, FiniteSets, TLC

VARIABLES
    pc,                 \* position of the modelled run
    rawBlueprint,       \* organizeMediaLibrary's rawBlueprint
    canonicalTitleMap,  \* what getCanonicalTitleMapping returned
    finalBlueprint,     \* consolidateBlueprint's result
    tree,               \* the file system below the target directory
    linkType,           \* --link-type
    pathMode,           \* --path-mode
    existingState,      \* buildExistingState's result
    cursor,             \* generateLinks: the next item of its two loops
    run,                \* which run of the tool on this target (1 or 2)
    attempts,           \* the createLink calls of the current run
    thrown,             \* an exception left generateLinks
    tree1,              \* the target as the first run left it
    isDebugMode,        \* --debug
    written,            \* the fs.writeFile calls of organizeMediaLibrary
    faulty,             \* the target paths at which the file system fails
    sourceTree,         \* the file system below the source directory
    concurrency,        \* --concurrency
    stack,              \* the scanDirectory calls in progress, innermost last
    chunk,              \* the promises of the chunk being awaited
    visited,            \* directory -> the groups and tasks its scan computed
    chunks              \* the chunks whose results have been folded

consVars == <<rawBlueprint, canonicalTitleMap, finalBlueprint>>

syncVars ==
    <<tree, linkType, pathMode, existingState, cursor, run, attempts, thrown,
      tree1, isDebugMode, written, faulty>>

scanVars == <<sourceTree, concurrency, stack, chunk, visited, chunks>>

vars == <<pc, consVars, syncVars, scanVars>>

(***************************************************************************)
(* JavaScript values                                                       *)
(***************************************************************************)

\* null / undefined of a number-valued field (season, episode, year).
Null == -1

\* null / undefined of a string-valued field (role, canonicalTitle): a
\* one-element sequence whose element is no character.
NullStr == <<"null">>

\* An object used as a map, without keys.
EmptyObj == [k \in {} |-> 0]

\* Truthiness of a string-valued field: null, undefined and "" are falsy.
TruthyStr(s) == s # NullStr /\ s # <<>>

\* Truthiness of a number-valued field: null, undefined and 0 are falsy.
TruthyNum(n) == n # Null /\ n # 0

DigitChar == <<"0", "1", "2", "3", "4", "5", "6", "7", "8", "9">>

IsDigit(c) == \E d \in 1..10 : DigitChar[d] = c

DigitVal(c) == (CHOOSE d \in 1..10 : DigitChar[d] = c) - 1

\* String(n) of a non-negative integer.
RECURSIVE NumToStr(_)
NumToStr(n) ==
    IF n < 10 THEN <<DigitChar[n + 1]>>
    ELSE NumToStr(n \div 10) \o <<DigitChar[(n % 10) + 1]>>

\* parseInt(s, 10) of a string of digits.
RECURSIVE ParseInt(_)
ParseInt(s) ==
    IF s = <<>> THEN 0
    ELSE 10 * ParseInt(SubSeq(s, 1, Len(s) - 1)) + DigitVal(s[Len(s)])

\* s.padStart(2, '0')
PadStart2(s) == IF Len(s) < 2 THEN <<"0">> \o s ELSE s

\* The characters removed by replace(/[<>:"/\\|?*]/g, '').
IllegalChars == {"<", ">", ":", "\"", "/", "\\", "|", "?", "*"}

RemoveIllegal(s) == SelectSeq(s, LAMBDA c : c \notin IllegalChars)

WhiteSpace == {" "}

RECURSIVE TrimStart(_)
TrimStart(s) ==
    IF s # <<>> /\ Head(s) \in WhiteSpace THEN TrimStart(Tail(s)) ELSE s

RECURSIVE TrimEnd(_)
TrimEnd(s) ==
    IF s # <<>> /\ s[Len(s)] \in WhiteSpace
    THEN TrimEnd(SubSeq(s, 1, Len(s) - 1))
    ELSE s

\* s.trim()
Trim(s) == TrimEnd(TrimStart(s))

\* title.replace(/[<>:"/\\|?*]/g, '').trim()
CleanTitle(title) == Trim(RemoveIllegal(title))

(***************************************************************************)
(* MediaBlueprint: Record<string, MediaSeries>.  An object keeps its       *)
(* string keys in insertion order: ord is that order, rec the values.      *)
(***************************************************************************)

EmptyBlueprint == [ord |-> <<>>, rec |-> EmptyObj]

HasTitle(blueprint, title) == title \in DOMAIN blueprint.rec

\* blueprint[title] = series for a new key.
PutNew(blueprint, title, series) ==
    [ord |-> Append(blueprint.ord, title),
     rec |-> (title :> series) @@ blueprint.rec]

\* Object.values(blueprint)
ObjectValues(blueprint) ==
    [k \in 1..Len(blueprint.ord) |-> blueprint.rec[blueprint.ord[k]]]

\* votes[key] || 0
VotesOf(votes, key) == IF key \in DOMAIN votes THEN votes[key] ELSE 0

\* votes[key] = 1
IncrementOnce(votes, key) == (key :> 1) @@ votes

\* votes[key] = (votes[key] || 0) + 1
Increment(votes, key) == (key :> (VotesOf(votes, key) + 1)) @@ votes

\* addToBlueprint(blueprint, item)
AddToBlueprint(blueprint, item) ==
    IF item.aiInfo.type = "unknown" THEN blueprint
    ELSE
        LET title == item.aiInfo.title
            created ==
                IF ~HasTitle(blueprint, title)
                THEN PutNew(blueprint, title,
                            [titleVotes |-> EmptyObj,
                             yearVotes |-> EmptyObj,
                             items |-> <<>>,
                             type |-> item.aiInfo.type,
                             canonicalTitle |-> NullStr,
                             canonicalYear |-> Null])
                ELSE blueprint
            series == created.rec[title]
            pushed ==
                [series EXCEPT
                    !.items = Append(@, item),
                    !.titleVotes = Increment(@, title)]
            voted ==
                IF item.aiInfo.year # Null
                THEN [pushed EXCEPT
                        !.yearVotes = Increment(@, NumToStr(item.aiInfo.year))]
                ELSE pushed
        IN  [created EXCEPT !.rec[title] = voted]

(***************************************************************************)
(* consolidateBlueprint                                                    *)
(***************************************************************************)

\* getCanonicalTitleMapping returned null.
NoMap == [ok |-> FALSE, ord |-> <<>>, val |-> EmptyObj]

\* Object.assign(target, source): the source's value replaces the target's.
ObjectAssign(target, source) == source @@ target

\* targetSeries.items.push(...seriesToMerge.items) that replaced the items.
PushAllReplacing(items, more) == more

\* targetSeries.items.push(...seriesToMerge.items)
PushAll(items, more) == items \o more

\* A property name every object literal inherits from Object.prototype:
\* rawBlueprint[name] is a function, which is truthy, whether or not the
\* Blueprint has a record of that title.
TP == <<"c", "o", "n", "s", "t", "r", "u", "c", "t", "o", "r">>
Inherited == {TP}

\* What the merge loop leaves when it throws: the spread of
\* seriesToMerge.items, which an inherited function does not have.
TypeError == [ord |-> <<>>, rec |-> EmptyObj, error |-> "TypeError"]

\* The loop over the pairs of the mapping, from its k-th key on.
RECURSIVE MergeLoop(_, _, _, _)
MergeLoop(raw, map, k, final) ==
    IF k > Len(map.ord) THEN final
    ELSE
        LET originalTitle == map.ord[k]
            canonicalTitle == map.val[originalTitle]
        IN  IF ~HasTitle(raw, originalTitle) /\ originalTitle \notin Inherited
            THEN MergeLoop(raw, map, k + 1, final)
            ELSE IF ~HasTitle(raw, originalTitle)
            THEN TypeError
            ELSE
                LET seriesToMerge == raw.rec[originalTitle]
                    created ==
                        IF ~HasTitle(final, canonicalTitle)
                        THEN PutNew(final, canonicalTitle,
                                    [titleVotes |-> EmptyObj,
                                     yearVotes |-> EmptyObj,
                                     items |-> <<>>,
                                     type |-> seriesToMerge.type,
                                     canonicalTitle |-> canonicalTitle,
                                     canonicalYear |-> Null])
                        ELSE final
                    targetSeries == created.rec[canonicalTitle]
                    merged ==
                        [targetSeries EXCEPT
                            !.items = PushAll(@, seriesToMerge.items),
                            !.titleVotes =
                                ObjectAssign(@, seriesToMerge.titleVotes),
                            !.yearVotes =
                                ObjectAssign(@, seriesToMerge.yearVotes)]
                IN  MergeLoop(raw, map, k + 1,
                              [created EXCEPT !.rec[canonicalTitle] = merged])

\* Object.entries(yearVotes): the keys are canonical array indices
\* (String of a year), which an object enumerates in ascending numeric
\* order whatever the insertion order.
RECURSIVE YearEntries(_)
YearEntries(yearVotes) ==
    IF DOMAIN yearVotes = {} THEN <<>>
    ELSE
        LET least ==
                CHOOSE y \in DOMAIN yearVotes :
                    \A z \in DOMAIN yearVotes : ParseInt(y) <= ParseInt(z)
            rest == [y \in DOMAIN yearVotes \ {least} |-> yearVotes[y]]
        IN  <<<<least, yearVotes[least]>>>> \o YearEntries(rest)

\* entries.reduce((a, b) => a[1] < b[1] ? b : a): a tie keeps the first.
RECURSIVE ReduceFirstMax(_, _)
ReduceFirstMax(a, entries) ==
    IF entries = <<>> THEN a
    ELSE ReduceFirstMax(IF a[2] < Head(entries)[2] THEN Head(entries) ELSE a,
                        Tail(entries))

\* entries.reduce((a, b) => a[1] < b[1] ? a : b): the least count wins.
RECURSIVE ReduceMin(_, _)
ReduceMin(a, entries) ==
    IF entries = <<>> THEN a
    ELSE ReduceMin(IF a[2] < Head(entries)[2] THEN a ELSE Head(entries),
                   Tail(entries))

\* entries.reduce((a, b) => a[1] > b[1] ? a : b), a the accumulator.
RECURSIVE Reduce(_, _)
Reduce(a, entries) ==
    IF entries = <<>> THEN a
    ELSE Reduce(IF a[2] > Head(entries)[2] THEN a ELSE Head(entries),
                Tail(entries))

\* The second loop's body: series.canonicalYear of one record.
ElectYear(series) ==
    IF DOMAIN series.yearVotes # {}
    THEN LET entries == YearEntries(series.yearVotes)
             finalYear == Reduce(Head(entries), Tail(entries))[1]
         IN  [series EXCEPT !.canonicalYear = ParseInt(finalYear)]
    ELSE series

\* consolidateBlueprint(rawBlueprint, stats) once the mapping has arrived.
ConsolidateBlueprint(raw, map) ==
    IF ~map.ok THEN raw
    ELSE
        LET merged == MergeLoop(raw, map, 1, EmptyBlueprint)
        IN  IF merged = TypeError THEN TypeError
            ELSE [merged EXCEPT
                    !.rec = [t \in DOMAIN merged.rec |->
                                ElectYear(merged.rec[t])]]

(***************************************************************************)
(* SpecCons: the raw Blueprint is built by addToBlueprint, one classified  *)
(* item at a time, and then consolidated with whatever mapping the         *)
(* collaborator returns.                                                   *)
(***************************************************************************)

\* How many items the scan folds at most.
MaxItems == 3

TA == <<"A">>
TB == <<"B", ":">>
TX == <<"X">>
TC == <<":", "C", "/", " ">>

\* What analyzeAndFormatFilename can return as aiInfo for a usable item.
Infos ==
    {[title |-> TA, type |-> "show", season |-> 1, episode |-> 1, year |-> 2020],
     [title |-> TA, type |-> "show", season |-> 1, episode |-> 2, year |-> 2021],
     [title |-> TA, type |-> "show", season |-> 1, episode |-> 3, year |-> Null],
     [title |-> TB, type |-> "show", season |-> 1, episode |-> 1, year |-> 2020],
     [title |-> TB, type |-> "movie", season |-> Null, episode |-> Null,
      year |-> 2020],
     [title |-> TA, type |-> "movie", season |-> Null, episode |-> Null,
      year |-> 2021]}

MkvExt == <<".", "m", "k", "v">>

SourceRoot == <<<<"s">>>>

\* The EpisodeOrMovie built for the n-th video file of the source root.
MkItem(n, info) ==
    [season |-> info.season,
     episode |-> info.episode,
     videoFile |->
        [sourcePath |-> Append(SourceRoot, NumToStr(n) \o MkvExt),
         originalFilename |-> NumToStr(n) \o MkvExt,
         role |-> NullStr],
     sidecarFiles |-> <<>>,
     aiInfo |-> info]

RECURSIVE SeqSum(_)
SeqSum(s) == IF s = <<>> THEN 0 ELSE Head(s) + SeqSum(Tail(s))

\* The number of items of a Blueprint.
ItemCount(blueprint) ==
    SeqSum([k \in 1..Len(blueprint.ord) |->
                Len(blueprint.rec[blueprint.ord[k]].items)])

Perms(S) ==
    {o \in [1..Cardinality(S) -> S] :
        \A i, j \in 1..Cardinality(S) : o[i] = o[j] => i = j}

\* The raw titles a mapping may name (TX is never a raw title) and the
\* canonical titles it may give them.
MapKeys == {TA, TB, TX}
CanonTitles == {TA, TC}

\* What getCanonicalTitleMapping can resolve to: an object whose keys come
\* in any order.
Mappings ==
    UNION {{[ok |-> TRUE, ord |-> o, val |-> v] :
                o \in Perms(K), v \in [K -> CanonTitles]} :
           K \in SUBSET MapKeys}

\* Mappings with a key that is no raw title but the name of a property
\* every object inherits.
PrototypeMappings ==
    {[ok |-> TRUE, ord |-> o, val |-> (TP :> TC) @@ (TA :> TA)] :
        o \in {<<TP>>, <<TA, TP>>, <<TP, TA>>}}

\* The synchronizer's variables while it does not run.
SyncIdle ==
    /\ tree = EmptyObj
    /\ linkType = "soft"
    /\ pathMode = "absolute"
    /\ existingState = {}
    /\ cursor = 1
    /\ run = 1
    /\ attempts = <<>>
    /\ thrown = FALSE
    /\ tree1 = EmptyObj
    /\ isDebugMode = FALSE
    /\ written = <<>>
    /\ faulty = {}

\* The scan's variables while it does not run.
ScanIdle ==
    /\ sourceTree = EmptyObj
    /\ concurrency = 1
    /\ stack = <<>>
    /\ chunk = <<>>
    /\ visited = EmptyObj
    /\ chunks = <<>>

InitCons ==
    /\ pc = "scan"
    /\ rawBlueprint = EmptyBlueprint
    /\ canonicalTitleMap = NoMap
    /\ finalBlueprint = EmptyBlueprint
    /\ SyncIdle
    /\ ScanIdle

\* scanDirectory folds one more fulfilled result.
Fold(info) ==
    /\ pc = "scan"
    /\ ItemCount(rawBlueprint) < MaxItems
    /\ rawBlueprint' =
          AddToBlueprint(rawBlueprint,
                         MkItem(ItemCount(rawBlueprint) + 1, info))
    /\ UNCHANGED <<pc, canonicalTitleMap, finalBlueprint, syncVars, scanVars>>

\* consolidateBlueprint on a Blueprint without titles: return {}.
ConsolidateEmpty ==
    /\ pc = "scan"
    /\ rawBlueprint.ord = <<>>
    /\ finalBlueprint' = EmptyBlueprint
    /\ pc' = "done"
    /\ UNCHANGED <<rawBlueprint, canonicalTitleMap, syncVars, scanVars>>

\* consolidateBlueprint: the collaborator's answer arrives and the merge runs.
\* An error it throws leaves organizeMediaLibrary without a Blueprint.
Consolidate(map) ==
    /\ pc = "scan"
    /\ rawBlueprint.ord # <<>>
    /\ canonicalTitleMap' = map
    /\ LET returned == ConsolidateBlueprint(rawBlueprint, map)
       IN  IF returned = TypeError
           THEN pc' = "failed" /\ UNCHANGED finalBlueprint
           ELSE pc' = "done" /\ finalBlueprint' = returned
    /\ UNCHANGED <<rawBlueprint, syncVars, scanVars>>

NextCons ==
    \/ \E info \in Infos : Fold(info)
    \/ ConsolidateEmpty
    \/ \E map \in Mappings \cup PrototypeMappings \cup {NoMap} :
          Consolidate(map)

SpecCons == InitCons /\ [][NextCons]_vars

\* The raw titles the mapping sends to the canonical title c.
MappedTo(c) ==
    {t \in DOMAIN rawBlueprint.rec \cap DOMAIN canonicalTitleMap.val :
        canonicalTitleMap.val[t] = c}

Merged == pc = "done" /\ canonicalTitleMap.ok

RECURSIVE SetSum(_, _)
SetSum(S, f) ==
    IF S = {} THEN 0
    ELSE LET x == CHOOSE x \in S : TRUE
         IN  f[x] + SetSum(S \ {x}, f)

\* The keys of the yearVotes (titleVotes) of all raw records.
RawYearKeys == UNION {DOMAIN rawBlueprint.rec[t].yearVotes :
                        t \in DOMAIN rawBlueprint.rec}
RawTitleKeys == UNION {DOMAIN rawBlueprint.rec[t].titleVotes :
                        t \in DOMAIN rawBlueprint.rec}

\* C4: after consolidation with a mapping, each canonical record's
\* yearVotes[k] and titleVotes[k] are the sums of the counts of the raw
\* records mapped to it.
C4_MergeSumsVotes ==
    Merged =>
        \A c \in DOMAIN finalBlueprint.rec :
            /\ \A k \in RawYearKeys :
                VotesOf(finalBlueprint.rec[c].yearVotes, k) =
                    SetSum(MappedTo(c),
                           [t \in MappedTo(c) |->
                               VotesOf(rawBlueprint.rec[t].yearVotes, k)])
            /\ \A k \in RawTitleKeys :
                VotesOf(finalBlueprint.rec[c].titleVotes, k) =
                    SetSum(MappedTo(c),
                           [t \in MappedTo(c) |->
                               VotesOf(rawBlueprint.rec[t].titleVotes, k)])

Range(s) == {s[i] : i \in DOMAIN s}

Covers == DOMAIN rawBlueprint.rec \subseteq DOMAIN canonicalTitleMap.val

\* Where the item x is in the consolidated Blueprint.
PlacesOf(x) ==
    {p \in (DOMAIN finalBlueprint.rec) \X (1..(MaxItems + 1)) :
        /\ p[2] <= Len(finalBlueprint.rec[p[1]].items)
        /\ finalBlueprint.rec[p[1]].items[p[2]] = x}

\* C5: with a mapping that covers every raw title, the output has one
\* record per distinct canonical title, whose items are the items of the
\* raw records mapped to it, and every raw item is in one output record,
\* once.
C5_MergeKeepsItems ==
    (Merged /\ Covers) =>
        /\ DOMAIN finalBlueprint.rec =
              {canonicalTitleMap.val[t] : t \in DOMAIN rawBlueprint.rec}
        /\ Range(finalBlueprint.ord) = DOMAIN finalBlueprint.rec
        /\ Len(finalBlueprint.ord) = Cardinality(DOMAIN finalBlueprint.rec)
        /\ \A c \in DOMAIN finalBlueprint.rec :
              /\ Range(finalBlueprint.rec[c].items) =
                    UNION {Range(rawBlueprint.rec[t].items) : t \in MappedTo(c)}
              /\ Len(finalBlueprint.rec[c].items) =
                    SetSum(MappedTo(c),
                           [t \in MappedTo(c) |->
                               Len(rawBlueprint.rec[t].items)])
        /\ \A t \in DOMAIN rawBlueprint.rec :
              \A x \in Range(rawBlueprint.rec[t].items) :
                  Cardinality(PlacesOf(x)) = 1

\* C5's case: two raw records, three items in all, merged into one record.
C5_Witness ==
    /\ Merged /\ Covers
    /\ \E c \in DOMAIN finalBlueprint.rec :
          /\ Cardinality(MappedTo(c)) = 2
          /\ Len(finalBlueprint.rec[c].items) = 3

\* C6: a canonical record with year votes gets as canonicalYear a year
\* whose count in the record's yearVotes no other year exceeds; a year
\* with strictly more votes than every other year is the one elected.
C6_YearElectedByMajority ==
    Merged =>
        \A c \in DOMAIN finalBlueprint.rec :
            LET series == finalBlueprint.rec[c]
                votes == series.yearVotes
            IN  DOMAIN votes # {} =>
                  /\ series.canonicalYear # Null
                  /\ NumToStr(series.canonicalYear) \in DOMAIN votes
                  /\ \A y \in DOMAIN votes :
                        votes[y] <= votes[NumToStr(series.canonicalYear)]
                  /\ \A y \in DOMAIN votes :
                        (\A z \in DOMAIN votes \ {y} : votes[z] < votes[y])
                            => series.canonicalYear = ParseInt(y)

\* C6's case: 2020 twice and 2021 once elect 2020.
C6_Witness ==
    /\ Merged
    /\ \E c \in DOMAIN finalBlueprint.rec :
          /\ finalBlueprint.rec[c].yearVotes =
                (NumToStr(2020) :> 2) @@ (NumToStr(2021) :> 1)
          /\ finalBlueprint.rec[c].canonicalYear = 2020

(***************************************************************************)
(* Paths and the file system.  A path is the sequence of its components;   *)
(* the target tree maps each existing path to its entry.                   *)
(***************************************************************************)

UpperLetters ==
    <<"A", "B", "C", "D", "E", "F", "G", "H", "I", "J", "K", "L", "M",
      "N", "O", "P", "Q", "R", "S", "T", "U", "V", "W", "X", "Y", "Z">>
LowerLetters ==
    <<"a", "b", "c", "d", "e", "f", "g", "h", "i", "j", "k", "l", "m",
      "n", "o", "p", "q", "r", "s", "t", "u", "v", "w", "x", "y", "z">>

LowerChar(c) ==
    IF \E i \in DOMAIN UpperLetters : UpperLetters[i] = c
    THEN LowerLetters[CHOOSE i \in DOMAIN UpperLetters : UpperLetters[i] = c]
    ELSE c

\* s.toLowerCase()
ToLowerCase(s) == [i \in DOMAIN s |-> LowerChar(s[i])]

\* s.startsWith(prefix)
StartsWith(s, prefix) ==
    Len(prefix) <= Len(s) /\ SubSeq(s, 1, Len(prefix)) = prefix

\* The index of the last "." of a file name, 0 when it has none.
LastDot(name) ==
    IF \E i \in DOMAIN name : name[i] = "."
    THEN CHOOSE i \in DOMAIN name :
            name[i] = "." /\ \A j \in DOMAIN name : name[j] = "." => j <= i
    ELSE 0

\* path.extname(name) of a file name: from the last "." on, unless that is
\* the name's first character or the name is "..".
ExtName(name) ==
    IF LastDot(name) <= 1 \/ name = <<".", ".">> THEN <<>>
    ELSE SubSeq(name, LastDot(name), Len(name))

\* One step of path.join: "" and "." add nothing, ".." removes a component.
JoinSegment(dir, segment) ==
    IF segment = <<>> \/ segment = <<".">> THEN dir
    ELSE IF segment = <<".", ".">>
         THEN SubSeq(dir, 1, Len(dir) - 1)
         ELSE Append(dir, segment)

\* The segments of a name between its "/".
RECURSIVE Segments(_, _)
Segments(name, current) ==
    IF name = <<>> THEN <<current>>
    ELSE IF Head(name) = "/"
         THEN <<current>> \o Segments(Tail(name), <<>>)
         ELSE Segments(Tail(name), Append(current, Head(name)))

RECURSIVE JoinSegments(_, _)
JoinSegments(dir, segments) ==
    IF segments = <<>> THEN dir
    ELSE JoinSegments(JoinSegment(dir, Head(segments)), Tail(segments))

\* path.join(dir, name)
PathJoin(dir, name) == JoinSegments(dir, Segments(name, <<>>))

\* path.dirname(p)
Dirname(p) == SubSeq(p, 1, Len(p) - 1)

RECURSIVE CommonPrefixLen(_, _)
CommonPrefixLen(a, b) ==
    IF a # <<>> /\ b # <<>> /\ Head(a) = Head(b)
    THEN 1 + CommonPrefixLen(Tail(a), Tail(b))
    ELSE 0

\* What a link holds: an absolute path, or a path relative to the link's
\* directory (up levels up, then comps).
AbsolutePath(p) == [rel |-> FALSE, up |-> 0, comps |-> p]

\* path.relative(from, to)
PathRelative(from, to) ==
    [rel |-> TRUE,
     up |-> Len(from) - CommonPrefixLen(from, to),
     comps |-> SubSeq(to, CommonPrefixLen(from, to) + 1, Len(to))]

NoRef == AbsolutePath(<<>>)

DirEntry == [kind |-> "dir", ref |-> NoRef]
FileEntry == [kind |-> "file", ref |-> NoRef]

Exists(t, p) == p = <<>> \/ p \in DOMAIN t

IsDir(t, p) == p = <<>> \/ (p \in DOMAIN t /\ t[p].kind = "dir")

\* fs.mkdir(path) without { recursive: true }: an existing path is EEXIST.
FsMkdirPlain(t, path) ==
    IF Exists(t, path) \/ ~IsDir(t, Dirname(path))
    THEN [ok |-> FALSE, tree |-> t]
    ELSE [ok |-> TRUE, tree |-> (path :> DirEntry) @@ t]

\* fs.mkdir(path, { recursive: true }): the missing directories of the path
\* are created; the call throws when a component exists and is no directory.
FsMkdir(t, path) ==
    IF \E n \in 1..Len(path) :
            Exists(t, SubSeq(path, 1, n)) /\ ~IsDir(t, SubSeq(path, 1, n))
    THEN [ok |-> FALSE, tree |-> t]
    ELSE [ok |-> TRUE,
          tree |->
            [p \in DOMAIN t \cup {SubSeq(path, 1, n) : n \in 1..Len(path)} |->
                IF p \in DOMAIN t THEN t[p] ELSE DirEntry]]

\* The error of creating an entry at path, "" when there is none.
CreateError(t, path) ==
    IF path \in faulty THEN "EIO"
    ELSE IF Exists(t, path) THEN "EEXIST"
    ELSE IF ~Exists(t, Dirname(path)) THEN "ENOENT"
    ELSE IF ~IsDir(t, Dirname(path)) THEN "ENOTDIR"
    ELSE ""

\* A symlink call that replaces the entry it finds at path.
FsSymlinkForce(t, target, path) ==
    IF CreateError(t, path) \notin {"", "EEXIST"}
    THEN [err |-> CreateError(t, path), tree |-> t]
    ELSE [err |-> "",
          tree |-> [q \in DOMAIN t \cup {path} |->
                        IF q = path THEN [kind |-> "symlink", ref |-> target]
                        ELSE t[q]]]

\* fs.symlink(target, path)
FsSymlink(t, target, path) ==
    IF CreateError(t, path) # ""
    THEN [err |-> CreateError(t, path), tree |-> t]
    ELSE [err |-> "",
          tree |-> (path :> [kind |-> "symlink", ref |-> target]) @@ t]

\* fs.link(existingPath, newPath): another name of the source's file.
FsLink(t, existingPath, newPath) ==
    IF CreateError(t, newPath) # ""
    THEN [err |-> CreateError(t, newPath), tree |-> t]
    ELSE [err |-> "",
          tree |->
            (newPath :> [kind |-> "file", ref |-> AbsolutePath(existingPath)])
                @@ t]

\* fs.readdir(dir): the names directly inside dir.
Readdir(t, dir) == {p[Len(p)] : p \in {q \in DOMAIN t : Len(q) = Len(dir) + 1
                                        /\ Dirname(q) = dir}}

(***************************************************************************)
(* createLink                                                              *)
(***************************************************************************)

\* createLink with linkSource = path.relative(destination, source).
CreateLinkFromDestination(t, source, destination, lType, pMode) ==
    LET linkSource ==
            IF lType = "soft" /\ pMode = "relative"
            THEN PathRelative(destination, source)
            ELSE AbsolutePath(source)
        made ==
            IF lType = "soft"
            THEN FsSymlink(t, linkSource, destination)
            ELSE FsLink(t, source, destination)
    IN  [tree |-> made.tree,
         err |-> made.err,
         logged |-> made.err \notin {"", "EEXIST"}]

\* createLink's linkSource and the call it makes.  err is the error the
\* call threw ("" for none); logged tells whether console.error reported it.
CreateLink(t, source, destination, lType, pMode) ==
    LET linkSource ==
            IF lType = "soft" /\ pMode = "relative"
            THEN PathRelative(Dirname(destination), source)
            ELSE AbsolutePath(source)
        made ==
            IF lType = "soft"
            THEN FsSymlink(t, linkSource, destination)
            ELSE FsLink(t, source, destination)
    IN  [tree |-> made.tree,
         err |-> made.err,
         logged |-> made.err \notin {"", "EEXIST"}]

(***************************************************************************)
(* buildExistingState                                                      *)
(***************************************************************************)

\* seriesDir.name.match(/^(.*?) \(\d{4}\)$/): the name without its " (dddd)"
\* suffix when it ends in one.
SeriesNameOf(dirName) ==
    LET n == Len(dirName)
    IN  IF /\ n >= 7
           /\ dirName[n - 6] = " "
           /\ dirName[n - 5] = "("
           /\ \A i \in (n - 4)..(n - 1) : IsDigit(dirName[i])
           /\ dirName[n] = ")"
        THEN SubSeq(dirName, 1, n - 7)
        ELSE dirName

\* The length of the run of digits of name that starts at index i.
RECURSIVE DigitRun(_, _)
DigitRun(name, i) ==
    IF i <= Len(name) /\ IsDigit(name[i]) THEN 1 + DigitRun(name, i + 1) ELSE 0

\* /S(\d{2,})E(\d{2,})/i matches name at index i.
EpisodeMatchAt(name, i) ==
    LET d1 == DigitRun(name, i + 1)
        e == i + 1 + d1
        d2 == DigitRun(name, e + 1)
    IN  /\ name[i] \in {"S", "s"}
        /\ d1 >= 2
        /\ e <= Len(name)
        /\ name[e] \in {"E", "e"}
        /\ d2 >= 2

\* episodeFile.name.match(/S(\d{2,})E(\d{2,})/i): <<>> for no match, else
\* <<parseInt(match[1], 10), parseInt(match[2], 10)>> of the leftmost match.
EpisodeMatch(name) ==
    IF \E i \in DOMAIN name : EpisodeMatchAt(name, i)
    THEN LET i == CHOOSE i \in DOMAIN name :
                    /\ EpisodeMatchAt(name, i)
                    /\ \A j \in DOMAIN name : EpisodeMatchAt(name, j) => i <= j
             d1 == DigitRun(name, i + 1)
             e == i + 1 + d1
             d2 == DigitRun(name, e + 1)
         IN  <<ParseInt(SubSeq(name, i + 1, i + d1)),
               ParseInt(SubSeq(name, e + 1, e + d2))>>
    ELSE <<>>

\* `${seriesName}-S${seasonNum}E${episodeNum}`
UniqueId(seriesName, seasonNum, episodeNum) ==
    seriesName \o <<"-", "S">> \o NumToStr(seasonNum) \o <<"E">>
        \o NumToStr(episodeNum)

SeasonPrefix == <<"s", "e", "a", "s", "o", "n">>

\* buildExistingState(targetDir, linkType) on a target every directory of
\* which can be read.
BuildExistingState(t, targetDir, lType) ==
    IF lType = "hard" \/ ~IsDir(t, targetDir) THEN {}
    ELSE
        {UniqueId(SeriesNameOf(p[Len(targetDir) + 1]),
                  EpisodeMatch(p[Len(p)])[1], EpisodeMatch(p[Len(p)])[2]) :
            p \in {q \in DOMAIN t :
                    /\ Len(q) = Len(targetDir) + 3
                    /\ SubSeq(q, 1, Len(targetDir)) = targetDir
                    /\ t[SubSeq(q, 1, Len(targetDir) + 1)].kind = "dir"
                    /\ t[Dirname(q)].kind = "dir"
                    /\ StartsWith(ToLowerCase(q[Len(targetDir) + 2]),
                                  SeasonPrefix)
                    /\ t[q].kind = "symlink"
                    /\ EpisodeMatch(q[Len(q)]) # <<>>}}

\* An episode file counted whether or not it is a symbolic link.
IdentitiesOfAnyEntry(t, fullPath, seriesName) ==
    LET match == EpisodeMatch(fullPath[Len(fullPath)])
    IN  IF match # <<>>
        THEN {UniqueId(seriesName, match[1], match[2])}
        ELSE {}

\* What one episodeFile adds to existingState once fs.lstat has returned.
IdentitiesOf(t, fullPath, seriesName) ==
    LET match == EpisodeMatch(fullPath[Len(fullPath)])
    IN  IF t[fullPath].kind = "symlink" /\ match # <<>>
        THEN {UniqueId(seriesName, match[1], match[2])}
        ELSE {}

\* The outcome of a part of buildExistingState's try block: what it added
\* to existingState, and whether it threw.
Added(ids) == [ids |-> ids, threw |-> FALSE]

Threw == [ids |-> {}, threw |-> TRUE]

\* A for loop over the names fs.readdir returned, in whatever order it
\* returned them; turn[name] are the outcomes of the loop's body for name.
\* The loop ends without an error when no turn throws, and has then added
\* what every turn adds; or a turn throws after the turns for some of the
\* other names, all of which ended without an error (a turn that ends
\* without an error adds the same in whatever order its own loops ran).
ForEach(turn) ==
    LET names == DOMAIN turn
        Quiet(name) == {outcome \in turn[name] : ~outcome.threw}
        Loud(name) == {outcome \in turn[name] : outcome.threw}
        IdsOf(done) ==
            UNION {outcome.ids : outcome \in UNION {Quiet(n) : n \in done}}
    IN  (IF \A name \in names : Quiet(name) # {}
         THEN {Added(IdsOf(names))}
         ELSE {})
        \cup UNION {{[ids |-> IdsOf(done) \cup outcome.ids, threw |-> TRUE] :
                        outcome \in Loud(name),
                        done \in SUBSET {n \in names \ {name} :
                                            Quiet(n) # {}}} :
                    name \in names}

\* The loop over episodeFiles of one season directory.
ProbeSeason(t, seasonPath, seriesName) ==
    IF seasonPath \in faulty THEN {Threw}
    ELSE ForEach([name \in Readdir(t, seasonPath) |->
                    IF Append(seasonPath, name) \in faulty THEN {Threw}
                    ELSE {Added(IdentitiesOf(t, Append(seasonPath, name),
                                             seriesName))}])

\* The loop over seasonDirs of one series directory.
ProbeSeries(t, seriesPath) ==
    IF seriesPath \in faulty THEN {Threw}
    ELSE ForEach([name \in Readdir(t, seriesPath) |->
                    IF /\ IsDir(t, Append(seriesPath, name))
                       /\ StartsWith(ToLowerCase(name), SeasonPrefix)
                    THEN ProbeSeason(t, Append(seriesPath, name),
                                     SeriesNameOf(seriesPath[Len(seriesPath)]))
                    ELSE {Added({})}])

\* The values buildExistingState(targetDir, linkType) can return: the catch
\* block returns existingState as the try block left it.
BuildExistingStates(t, targetDir, lType) ==
    IF lType = "hard" THEN {{}}
    ELSE IF ~IsDir(t, targetDir) \/ targetDir \in faulty THEN {{}}
    ELSE {outcome.ids :
            outcome \in ForEach([name \in Readdir(t, targetDir) |->
                                    IF IsDir(t, Append(targetDir, name))
                                    THEN ProbeSeries(t, Append(targetDir, name))
                                    ELSE {Added({})}])}

(***************************************************************************)
(* generateLinks                                                           *)
(***************************************************************************)

SameNameExtensions ==
    {<<".", "n", "f", "o">>, <<".", "a", "s", "s">>, <<".", "s", "s", "a">>,
     <<".", "s", "r", "t">>, <<".", "s", "u", "b">>, <<".", "s", "u", "p">>,
     <<".", "v", "t", "t">>, <<".", "l", "r", "c">>}

\* finalSidecarName with the role suffix whatever the extension.
FinalSidecarNameAlwaysRole(newBaseFilename, file) ==
    newBaseFilename
        \o (IF TruthyStr(file.role) THEN <<"-">> \o file.role ELSE <<>>)
        \o ToLowerCase(ExtName(file.originalFilename))

\* finalSidecarName of one sidecar file.
FinalSidecarName(newBaseFilename, file) ==
    LET sidecarExt == ToLowerCase(ExtName(file.originalFilename))
    IN  IF sidecarExt \in SameNameExtensions
        THEN newBaseFilename \o sidecarExt
        ELSE LET roleSuffix ==
                    IF TruthyStr(file.role) THEN <<"-">> \o file.role ELSE <<>>
             IN  newBaseFilename \o roleSuffix \o sidecarExt

\* seriesDirName of a record.
SeriesDirName(series) ==
    IF series.type = "movie" /\ TruthyNum(series.canonicalYear)
    THEN CleanTitle(series.canonicalTitle) \o <<" ", "(">>
            \o NumToStr(series.canonicalYear) \o <<")">>
    ELSE CleanTitle(series.canonicalTitle)

\* newBaseFilename of a show item that keeps the unsanitized title.
ShowBaseFilenameRawTitle(series, item) ==
    series.canonicalTitle \o <<" ", "S">>
        \o PadStart2(NumToStr(item.season)) \o <<"E">>
        \o PadStart2(NumToStr(item.episode))

\* newBaseFilename of a show item.
ShowBaseFilename(series, item) ==
    CleanTitle(series.canonicalTitle) \o <<" ", "S">>
        \o PadStart2(NumToStr(item.season)) \o <<"E">>
        \o PadStart2(NumToStr(item.episode))

\* seasonDir of a show item.
SeasonDir(item) ==
    <<"S", "e", "a", "s", "o", "n", " ">> \o PadStart2(NumToStr(item.season))

\* One createLink call of generateLinks, recorded in the run's attempts.
LinkOne(st, ctx, file, name, primary) ==
    LET destination == PathJoin(ctx.targetPath, name)
        made == CreateLink(st.tree, file.sourcePath, destination,
                           ctx.linkType, ctx.pathMode)
    IN  [tree |-> made.tree,
         attempts |->
            Append(st.attempts,
                   [series |-> ctx.series,
                    dirName |-> ctx.dirName,
                    base |-> ctx.base,
                    file |-> file,
                    primary |-> primary,
                    name |-> name,
                    destination |-> destination,
                    err |-> made.err,
                    logged |-> made.logged])]

\* A loop over the sidecars that a reported error of createLink ends.
RECURSIVE LinkSidecarsUntilError(_, _, _, _)
LinkSidecarsUntilError(st, ctx, files, k) ==
    IF k > Len(files) \/ st.attempts[Len(st.attempts)].logged THEN st
    ELSE LinkSidecarsUntilError(
            LinkOne(st, ctx, files[k], FinalSidecarName(ctx.base, files[k]),
                    FALSE),
            ctx, files, k + 1)

\* for (const file of item.sidecarFiles), from the k-th file on.
RECURSIVE LinkSidecars(_, _, _, _)
LinkSidecars(st, ctx, files, k) ==
    IF k > Len(files) THEN st
    ELSE LinkSidecars(
            LinkOne(st, ctx, files[k], FinalSidecarName(ctx.base, files[k]),
                    FALSE),
            ctx, files, k + 1)

\* The body of generateLinks' inner loop for one item of the record stored
\* under the key title: what it leaves of the tree, the createLink calls it
\* made, and whether fs.mkdir threw.
GenerateLinksItem(t, calls, title, series, item, existing, root, lType, pMode) ==
    LET cleanTitle == CleanTitle(series.canonicalTitle)
        seriesDirName == SeriesDirName(series)
        seriesPath == PathJoin(root, seriesDirName)
        isShow == series.type = "show"
        skipped ==
            isShow /\ (\/ item.season = Null
                       \/ item.episode = Null
                       \/ UniqueId(cleanTitle, item.season, item.episode)
                            \in existing)
        targetPath ==
            IF isShow THEN PathJoin(seriesPath, SeasonDir(item))
            ELSE seriesPath
        newBaseFilename ==
            IF isShow THEN ShowBaseFilename(series, item) ELSE seriesDirName
        dirs == FsMkdir(t, targetPath)
        ctx == [targetPath |-> targetPath, base |-> newBaseFilename,
                dirName |-> seriesDirName, series |-> title,
                linkType |-> lType, pathMode |-> pMode]
        videoExt == ExtName(item.videoFile.originalFilename)
        video == LinkOne([tree |-> dirs.tree, attempts |-> calls], ctx,
                         item.videoFile, newBaseFilename \o videoExt, TRUE)
        done == LinkSidecars(video, ctx, item.sidecarFiles, 1)
    IN  IF skipped
        THEN [tree |-> t, attempts |-> calls, thrown |-> FALSE]
        ELSE IF ~dirs.ok
             THEN [tree |-> t, attempts |-> calls, thrown |-> TRUE]
             ELSE [tree |-> done.tree, attempts |-> done.attempts,
                   thrown |-> FALSE]

\* The items generateLinks' two loops visit, in order, as <<k, i>>: the
\* i-th item of the k-th record; a record without canonicalTitle is passed.
RECURSIVE Worklist(_, _)
Worklist(blueprint, k) ==
    IF k > Len(blueprint.ord) THEN <<>>
    ELSE LET series == blueprint.rec[blueprint.ord[k]]
         IN  (IF TruthyStr(series.canonicalTitle)
              THEN [i \in 1..Len(series.items) |-> <<k, i>>]
              ELSE <<>>)
             \o Worklist(blueprint, k + 1)

(***************************************************************************)
(* SpecSync: the tool's StateProbe and LinkSynchronizer run twice, with    *)
(* the same consolidated Blueprint, on one target directory.  No file      *)
(* system call fails for a reason outside the modelled tree (permissions,  *)
(* devices): faulty is empty, the errors are EEXIST, ENOENT and ENOTDIR.   *)
(***************************************************************************)

\* How many items the Blueprint of a synchronization holds at most.
MaxSyncItems == 2

TargetRoot == <<<<"t">>>>

File(name, role) ==
    [sourcePath |-> Append(SourceRoot, name),
     originalFilename |-> name,
     role |-> role]

Item(info, videoFile, sidecarFiles) ==
    [season |-> info.season,
     episode |-> info.episode,
     videoFile |-> videoFile,
     sidecarFiles |-> sidecarFiles,
     aiInfo |-> info]

RolePoster == <<"p", "o", "s", "t", "e", "r">>
RoleSubtitle == <<"s", "u", "b">>
RoleNfo == <<"n", "f", "o">>

\* The classified items a scan can have produced.
SyncItems ==
    {Item([title |-> TA, type |-> "show", season |-> 1, episode |-> 1,
           year |-> 2020],
          File(<<"a", ".", "m", "k", "v">>, NullStr),
          <<File(<<"a", ".", "s", "r", "t">>, RoleSubtitle),
            File(<<"a", ".", "j", "p", "g">>, RolePoster)>>),
     Item([title |-> TA, type |-> "show", season |-> 1, episode |-> 2,
           year |-> Null],
          File(<<"b", ".", "m", "k", "v">>, NullStr),
          <<File(<<"b", ".", "J", "P", "G">>, NullStr)>>),
     Item([title |-> TB, type |-> "movie", season |-> Null, episode |-> Null,
           year |-> 2020],
          File(<<"m", ".", "m", "p", "4">>, NullStr),
          <<File(<<"m", ".", "N", "F", "O">>, RoleNfo),
            File(<<"m", ".", "p", "n", "g">>, <<>>)>>),
     Item([title |-> TB, type |-> "movie", season |-> Null, episode |-> Null,
           year |-> Null],
          File(<<"n", ".", "m", "k", "v">>, NullStr),
          <<>>),
     Item([title |-> TA, type |-> "movie", season |-> Null, episode |-> Null,
           year |-> 2021],
          File(<<"c", ".", "m", "k", "v">>, NullStr),
          <<File(<<"c">>, RolePoster)>>)}

\* The sequences of distinct items of at most n items.
ItemSeqs(n) ==
    UNION {{q \in [1..m -> SyncItems] :
                \A i, j \in 1..m : q[i] = q[j] => i = j} : m \in 0..n}

RECURSIVE FoldAll(_, _)
FoldAll(blueprint, items) ==
    IF items = <<>> THEN blueprint
    ELSE FoldAll(AddToBlueprint(blueprint, Head(items)), Tail(items))

\* The mappings of a synchronization: both raw titles, in either order.
SyncMappings ==
    {[ok |-> TRUE, ord |-> o, val |-> v] :
        o \in Perms({TA, TB}), v \in [{TA, TB} -> CanonTitles]}

\* Canonical titles that are names of their own to the file system or to
\* the probe: the parent directory, a title of illegal characters only,
\* and a title that ends in a year in parentheses.
TParent == <<".", ".">>
TColon == <<":">>
TAYear == <<"A", " ", "(", "2", "0", "2", "0", ")">>

\* The mappings that give both raw titles one of these titles.
AwkwardMappings ==
    {[ok |-> TRUE, ord |-> <<TA, TB>>, val |-> (TA :> c) @@ (TB :> c)] :
        c \in {TParent, TColon, TAYear}}

SeasonOne == <<"S", "e", "a", "s", "o", "n", " ", "0", "1">>

\* The targets the first run can find: empty; holding an earlier run's link
\* of A S01E01; a regular file where the series directory A belongs; a
\* regular file where the link of A S01E02 belongs.
InitialTrees ==
    {(TargetRoot :> DirEntry),
     (TargetRoot :> DirEntry)
        @@ (Append(TargetRoot, <<"A">>) :> DirEntry)
        @@ (<<<<"t">>, <<"A">>, SeasonOne>> :> DirEntry)
        @@ (<<<<"t">>, <<"A">>, SeasonOne,
              <<"A", " ", "S", "0", "1", "E", "0", "1", ".", "m", "k", "v">>>>
             :> [kind |-> "symlink",
                 ref |-> AbsolutePath(
                            Append(SourceRoot, <<"a", ".", "m", "k", "v">>))]),
     (TargetRoot :> DirEntry)
        @@ (Append(TargetRoot, <<"A">>) :> FileEntry),
     (TargetRoot :> DirEntry)
        @@ (Append(TargetRoot, <<"A">>) :> DirEntry)
        @@ (<<<<"t">>, <<"A">>, SeasonOne>> :> DirEntry)
        @@ (<<<<"t">>, <<"A">>, SeasonOne,
              <<"A", " ", "S", "0", "1", "E", "0", "2", ".", "m", "k", "v">>>>
             :> FileEntry)}

\* The state before the probe of a first run on one of targets, each a
\* target tree with the paths of it at which the file system fails.
InitOn(targets, debugModes) ==
    /\ pc = "probe"
    /\ \E items \in ItemSeqs(MaxSyncItems) :
          rawBlueprint = FoldAll(EmptyBlueprint, items)
    /\ canonicalTitleMap \in SyncMappings \cup {NoMap}
    /\ finalBlueprint =
          IF rawBlueprint.ord = <<>> THEN EmptyBlueprint
          ELSE ConsolidateBlueprint(rawBlueprint, canonicalTitleMap)
    /\ \E target \in targets : tree = target.tree /\ faulty = target.faulty
    /\ linkType \in {"soft", "hard"}
    /\ pathMode \in {"absolute", "relative"}
    /\ existingState = {}
    /\ cursor = 1
    /\ run = 1
    /\ attempts = <<>>
    /\ thrown = FALSE
    /\ tree1 = tree
    /\ isDebugMode \in debugModes
    /\ written = <<>>
    /\ ScanIdle

\* A first run on a file system that does not fail.
InitSync ==
    InitOn({[tree |-> t, faulty |-> {}] : t \in InitialTrees}, BOOLEAN)

\* organizeMediaLibrary's existingState with the probe run in debug mode too.
ExistingStateProbed(debug, t, targetDir, lType) ==
    BuildExistingStates(t, targetDir, lType)

\* The values of organizeMediaLibrary's existingState: an empty set in
\* debug mode, a result of buildExistingState otherwise.
ExistingStateOf(debug, t, targetDir, lType) ==
    IF debug THEN {{}} ELSE BuildExistingStates(t, targetDir, lType)

DebugFileName ==
    <<"d", "e", "b", "u", "g", "_", "l", "o", "g", "_", "o", "r", "g", "a",
      "n", "i", "z", "e", "d", ".", "j", "s", "o", "n">>

\* const existingState = isDebugMode ? new Set() : await buildExistingState(
\* targetDir, linkType), followed by the branch on isDebugMode.
Probe ==
    /\ pc = "probe"
    /\ existingState' \in
            ExistingStateOf(isDebugMode, tree, TargetRoot, linkType)
    /\ pc' = IF isDebugMode THEN "plan" ELSE "link"
    /\ cursor' = 1
    /\ attempts' = <<>>
    /\ UNCHANGED <<consVars, scanVars, tree, linkType, pathMode, run, thrown,
                   tree1, isDebugMode, written, faulty>>

\* Debug mode: fs.writeFile(debugFilePath, JSON.stringify(finalBlueprint)) in
\* the current working directory; generateLinks is not called.
WritePlan ==
    /\ pc = "plan"
    /\ written' =
            Append(written, [file |-> DebugFileName, data |-> finalBlueprint])
    /\ pc' = "done"
    /\ UNCHANGED <<consVars, scanVars, tree, linkType, pathMode,
                   existingState, cursor, run, attempts, thrown, tree1,
                   isDebugMode, faulty>>

\* generateLinks with a loop that does not look into existingState.
LinkItemUnprobed ==
    /\ pc = "link"
    /\ cursor <= Len(Worklist(finalBlueprint, 1))
    /\ LET at == Worklist(finalBlueprint, 1)[cursor]
           title == finalBlueprint.ord[at[1]]
           series == finalBlueprint.rec[title]
           out == GenerateLinksItem(tree, attempts, title, series,
                                    series.items[at[2]], {},
                                    TargetRoot, linkType, pathMode)
       IN  /\ tree' = out.tree
           /\ attempts' = out.attempts
           /\ thrown' = out.thrown
           /\ pc' = IF out.thrown THEN "aborted" ELSE "link"
           /\ cursor' = IF out.thrown THEN cursor ELSE cursor + 1
    /\ UNCHANGED <<consVars, scanVars, linkType, pathMode, existingState, run,
                   tree1, isDebugMode, written, faulty>>

\* generateLinks: one turn of the loop over the items.
LinkItem ==
    /\ pc = "link"
    /\ cursor <= Len(Worklist(finalBlueprint, 1))
    /\ LET at == Worklist(finalBlueprint, 1)[cursor]
           title == finalBlueprint.ord[at[1]]
           series == finalBlueprint.rec[title]
           out == GenerateLinksItem(tree, attempts, title, series,
                                    series.items[at[2]], existingState,
                                    TargetRoot, linkType, pathMode)
       IN  /\ tree' = out.tree
           /\ attempts' = out.attempts
           /\ thrown' = out.thrown
           /\ pc' = IF out.thrown THEN "aborted" ELSE "link"
           /\ cursor' = IF out.thrown THEN cursor ELSE cursor + 1
    /\ UNCHANGED <<consVars, scanVars, linkType, pathMode, existingState, run,
                   tree1, isDebugMode, written, faulty>>

\* generateLinks returns; the tool is started again on the same target.
RunAgain ==
    /\ pc = "link"
    /\ cursor > Len(Worklist(finalBlueprint, 1))
    /\ run = 1
    /\ run' = 2
    /\ tree1' = tree
    /\ pc' = "probe"
    /\ UNCHANGED <<consVars, scanVars, tree, linkType, pathMode,
                   existingState, cursor, attempts, thrown, isDebugMode,
                   written, faulty>>

\* generateLinks returns from the second run.
Finish ==
    /\ pc = "link"
    /\ cursor > Len(Worklist(finalBlueprint, 1))
    /\ run = 2
    /\ pc' = "done"
    /\ UNCHANGED <<consVars, syncVars, scanVars>>

NextSync == Probe \/ LinkItem \/ RunAgain \/ Finish \/ WritePlan

SpecSync == InitSync /\ [][NextSync]_vars

(***************************************************************************)
(* SpecFault: one run of the probe and of generateLinks on a file system   *)
(* that fails with EIO at the paths of faulty, for fs.readdir and fs.lstat *)
(* of the probe and for fs.symlink and fs.link of createLink.              *)
(***************************************************************************)

\* A target that holds the links an earlier run made for the series A and C.
TwoSeries ==
    (TargetRoot :> DirEntry)
        @@ (Append(TargetRoot, <<"A">>) :> DirEntry)
        @@ (<<<<"t">>, <<"A">>, SeasonOne>> :> DirEntry)
        @@ (<<<<"t">>, <<"A">>, SeasonOne,
              <<"A", " ", "S", "0", "1", "E", "0", "1", ".", "m", "k", "v">>>>
             :> [kind |-> "symlink",
                 ref |-> AbsolutePath(
                            Append(SourceRoot, <<"a", ".", "m", "k", "v">>))])
        @@ (Append(TargetRoot, <<"C">>) :> DirEntry)
        @@ (<<<<"t">>, <<"C">>, SeasonOne>> :> DirEntry)
        @@ (<<<<"t">>, <<"C">>, SeasonOne,
              <<"C", " ", "S", "0", "1", "E", "0", "1", ".", "m", "k", "v">>>>
             :> [kind |-> "symlink",
                 ref |-> AbsolutePath(
                            Append(SourceRoot, <<"c", ".", "m", "k", "v">>))])

\* The targets with a fault: in TwoSeries the target directory, the series
\* directory C, its season directory or its link cannot be read; in an
\* empty target the links A S01E01.mkv and A S01E01.srt cannot be created.
FaultyTargets ==
    {[tree |-> TwoSeries, faulty |-> {path}] :
        path \in {TargetRoot,
                  Append(TargetRoot, <<"C">>),
                  <<<<"t">>, <<"C">>, SeasonOne>>,
                  <<<<"t">>, <<"C">>, SeasonOne,
                    <<"C", " ", "S", "0", "1", "E", "0", "1", ".", "m", "k",
                      "v">>>>}}
    \cup {[tree |-> (TargetRoot :> DirEntry),
           faulty |->
            {<<<<"t">>, <<"A">>, SeasonOne,
               <<"A", " ", "S", "0", "1", "E", "0", "1", ".", "m", "k",
                 "v">>>>,
             <<<<"t">>, <<"A">>, SeasonOne,
               <<"A", " ", "S", "0", "1", "E", "0", "1", ".", "s", "r",
                 "t">>>>}]}

InitFault == InitOn(FaultyTargets, {FALSE})

NextFault == Probe \/ LinkItem

SpecFault == InitFault /\ [][NextFault]_vars

(***************************************************************************)
(* SpecRun: the statements of organizeMediaLibrary in a run without        *)
(* --debug, in their order: buildExistingState, the scan of the source     *)
(* directories (its result is an input here), consolidateBlueprint,        *)
(* generateLinks.  Another process may link into the target meanwhile.     *)
(***************************************************************************)

InitRun ==
    /\ pc = "run"
    /\ rawBlueprint = EmptyBlueprint
    /\ canonicalTitleMap = NoMap
    /\ finalBlueprint = EmptyBlueprint
    /\ tree \in InitialTrees
    /\ linkType \in {"soft", "hard"}
    /\ pathMode \in {"absolute", "relative"}
    /\ existingState = {}
    /\ cursor = 1
    /\ run = 1
    /\ attempts = <<>>
    /\ thrown = FALSE
    /\ tree1 = tree
    /\ isDebugMode = FALSE
    /\ written = <<>>
    /\ faulty = {}
    /\ ScanIdle

\* A run that does not read the target: existingState stays empty.
RunWithoutProbe ==
    /\ pc = "run"
    /\ existingState' = {}
    /\ pc' = "scanning"
    /\ UNCHANGED <<consVars, scanVars, tree, linkType, pathMode, cursor, run,
                   attempts, thrown, tree1, isDebugMode, written, faulty>>

\* const existingState = isDebugMode ? new Set() : await buildExistingState(
\* targetDir, linkType): the first statement of the run.
RunProbe ==
    /\ pc = "run"
    /\ existingState' \in
            ExistingStateOf(isDebugMode, tree, TargetRoot, linkType)
    /\ pc' = "scanning"
    /\ UNCHANGED <<consVars, scanVars, tree, linkType, pathMode, cursor, run,
                   attempts, thrown, tree1, isDebugMode, written, faulty>>

\* The loop over sourceDirs has filled rawBlueprint.
RunScan ==
    /\ pc = "scanning"
    /\ \E items \in ItemSeqs(MaxSyncItems) :
          rawBlueprint' = FoldAll(EmptyBlueprint, items)
    /\ pc' = "consolidating"
    /\ UNCHANGED <<canonicalTitleMap, finalBlueprint, syncVars, scanVars>>

\* const finalBlueprint = await consolidateBlueprint(rawBlueprint, stats)
RunConsolidate ==
    /\ pc = "consolidating"
    /\ \E map \in SyncMappings \cup AwkwardMappings \cup {NoMap} :
          /\ canonicalTitleMap' = map
          /\ finalBlueprint' =
                IF rawBlueprint.ord = <<>> THEN EmptyBlueprint
                ELSE ConsolidateBlueprint(rawBlueprint, map)
    /\ pc' = "link"
    /\ UNCHANGED <<rawBlueprint, syncVars, scanVars>>

\* While the run scans and consolidates, another process (a second run of
\* the tool, say) makes the link of A S01E01 in the target.
TargetChanges ==
    /\ pc \in {"scanning", "consolidating"}
    /\ LET path == <<<<"t">>, <<"A">>, SeasonOne,
                     <<"A", " ", "S", "0", "1", "E", "0", "1", ".", "m", "k",
                       "v">>>>
           dirs == FsMkdir(tree, Dirname(path))
           made == FsSymlink(dirs.tree,
                             AbsolutePath(Append(SourceRoot,
                                                 <<"a", ".", "m", "k", "v">>)),
                             path)
       IN  /\ dirs.ok
           /\ made.err = ""
           /\ tree' = made.tree
    /\ UNCHANGED <<pc, consVars, scanVars, linkType, pathMode, existingState,
                   cursor, run, attempts, thrown, tree1, isDebugMode, written,
                   faulty>>

NextRun == RunProbe \/ RunScan \/ RunConsolidate \/ TargetChanges \/ LinkItem

SpecRun == InitRun /\ [][NextRun]_vars

(***************************************************************************)
(* Properties of SpecSync                                                  *)
(***************************************************************************)

IsPrefix(a, b) == Len(a) <= Len(b) /\ SubSeq(b, 1, Len(a)) = a

Forbidden == {"<", ">", ":", "\"", "/", "\\", "|", "?", "*"}

\* C1: once a first run of the probe and the synchronizer has completed,
\* a second run on the target it left creates no directory and no link,
\* changes no entry, throws nothing and reports no error: all through the
\* second run the target tree is the tree the first run left.
C1_SecondRunChangesNothing ==
    run = 2 =>
        /\ tree = tree1
        /\ ~thrown
        /\ pc \in {"link", "done"} =>
                \A i \in 1..Len(attempts) : ~attempts[i].logged

\* The second run has completed after a first run that added entries to
\* the target, and it has tried again a link that exists.
C1_Witness ==
    /\ pc = "done"
    /\ tree \notin InitialTrees
    /\ \E i \in 1..Len(attempts) : attempts[i].err = "EEXIST"

\* C7: a sidecar whose lowercase extension is one of .nfo .ass .ssa .srt
\* .sub .sup .vtt .lrc is linked as B + extension whatever its role; any
\* other sidecar is linked as B + "-" + role + extension when it has a
\* role and as B + extension when it has none, B being the base filename
\* of the item's primary link.
C7_SidecarLinkNames ==
    \A i \in 1..Len(attempts) :
        LET a == attempts[i]
            ext == ToLowerCase(ExtName(a.file.originalFilename))
            classified == a.file.role # NullStr /\ a.file.role # <<>>
        IN  IF a.primary
            THEN a.name = a.base \o ExtName(a.file.originalFilename)
            ELSE IF ext \in {<<".", "n", "f", "o">>, <<".", "a", "s", "s">>,
                             <<".", "s", "s", "a">>, <<".", "s", "r", "t">>,
                             <<".", "s", "u", "b">>, <<".", "s", "u", "p">>,
                             <<".", "v", "t", "t">>, <<".", "l", "r", "c">>}
                 THEN a.name = a.base \o ext
                 ELSE IF classified
                      THEN a.name = a.base \o <<"-">> \o a.file.role \o ext
                      ELSE a.name = a.base \o ext

\* One item's .srt with a role is linked under the bare base name and its
\* .jpg with the role poster under the base name plus "-poster".
C7_Witness ==
    \E i, j \in 1..Len(attempts) :
        /\ ~attempts[i].primary /\ ~attempts[j].primary
        /\ attempts[i].base = attempts[j].base
        /\ attempts[i].err = "" /\ attempts[j].err = ""
        /\ attempts[i].file.role = RoleSubtitle
        /\ attempts[i].name = attempts[i].base \o <<".", "s", "r", "t">>
        /\ attempts[j].file.role = RolePoster
        /\ attempts[j].name =
                attempts[j].base \o <<"-">> \o RolePoster
                    \o <<".", "j", "p", "g">>

\* C8: the series directory name of a canonical record holds none of
\* < > : " / \ | ? *, and the record's sanitized title is the prefix of
\* that name and of the name of every primary and sidecar link made for
\* the record's items, all of them made inside that directory.
C8_SanitizedTitleEverywhere ==
    /\ \A title \in DOMAIN finalBlueprint.rec :
            LET series == finalBlueprint.rec[title]
                dirName == SeriesDirName(series)
            IN  TruthyStr(series.canonicalTitle) =>
                    /\ \A n \in 1..Len(dirName) : dirName[n] \notin Forbidden
                    /\ IsPrefix(CleanTitle(series.canonicalTitle), dirName)
    /\ \A i \in 1..Len(attempts) :
            LET a == attempts[i]
                series == finalBlueprint.rec[a.series]
                sanitized == CleanTitle(series.canonicalTitle)
            IN  /\ a.dirName = SeriesDirName(series)
                /\ IsPrefix(sanitized, a.name)
                /\ IsPrefix(Append(TargetRoot, a.dirName), a.destination)
                /\ a.destination[Len(a.destination)] = a.name

\* A show's primary link and a sidecar link have been made for a record
\* whose canonical title holds forbidden characters.
C8_Witness ==
    \E i, j \in 1..Len(attempts) :
        /\ attempts[i].series = attempts[j].series
        /\ finalBlueprint.rec[attempts[i].series].canonicalTitle = TC
        /\ finalBlueprint.rec[attempts[i].series].type = "show"
        /\ attempts[i].primary /\ ~attempts[j].primary
        /\ attempts[i].err = "" /\ attempts[j].err = ""

(***************************************************************************)
(* scanDirectory                                                           *)
(***************************************************************************)

VideoExtensions ==
    {<<".", "m", "k", "v">>, <<".", "m", "p", "4">>, <<".", "a", "v", "i">>,
     <<".", "m", "o", "v">>, <<".", "w", "m", "v">>, <<".", "f", "l", "v">>,
     <<".", "w", "e", "b", "m">>, <<".", "t", "s">>,
     <<".", "r", "m", "v", "b">>}

ThumbSuffix == <<"-", "t", "h", "u", "m", "b">>

\* path.parse(name).name.replace(/-thumb$/, ''), the key of the earlier
\* organizer.
BaseNameWithoutThumb(name) ==
    LET parsed == SubSeq(name, 1, Len(name) - Len(ExtName(name)))
        n == Len(parsed)
    IN  IF n >= 6 /\ SubSeq(parsed, n - 5, n) = ThumbSuffix
        THEN SubSeq(parsed, 1, n - 6)
        ELSE parsed

\* path.parse(name).name: the name without its extension.
BaseName(name) == SubSeq(name, 1, Len(name) - Len(ExtName(name)))

\* The loop that fills fileGroups, over the entries not yet seen; groups is
\* the Map in insertion order.
RECURSIVE GroupEntries(_, _, _)
GroupEntries(dir, entries, groups) ==
    IF entries = <<>> THEN groups
    ELSE LET entry == Head(entries)
             baseName == BaseName(entry.name)
             file == [sourcePath |-> PathJoin(dir, entry.name),
                      originalFilename |-> entry.name,
                      role |-> NullStr]
             at == {g \in 1..Len(groups) : groups[g].key = baseName}
         IN  IF entry.kind # "file"
             THEN GroupEntries(dir, Tail(entries), groups)
             ELSE IF at = {}
                  THEN GroupEntries(dir, Tail(entries),
                            Append(groups,
                                   [key |-> baseName, files |-> <<file>>]))
                  ELSE GroupEntries(dir, Tail(entries),
                            [groups EXCEPT
                                ![CHOOSE g \in at : TRUE].files =
                                    Append(@, file)])

IsVideo(file) ==
    ToLowerCase(ExtName(file.originalFilename)) \in VideoExtensions

\* The task of one group: none when the group has no video file.
TaskOf(files) ==
    LET videos == {k \in 1..Len(files) : IsVideo(files[k])}
    IN  IF videos = {} THEN <<>>
        ELSE LET videoFile ==
                    files[CHOOSE k \in videos : \A j \in videos : k <= j]
             IN  <<[videoFile |-> videoFile,
                    sidecarFiles |->
                        SelectSeq(files,
                            LAMBDA f : f.sourcePath # videoFile.sourcePath)]>>

\* videoTasks
RECURSIVE VideoTasks(_)
VideoTasks(groups) ==
    IF groups = <<>> THEN <<>>
    ELSE TaskOf(Head(groups).files) \o VideoTasks(Tail(groups))

Min(a, b) == IF a <= b THEN a ELSE b

\* videoTasks.slice(i, i + concurrency + 1)
SliceWide(tasks, i, c) == SubSeq(tasks, i + 1, Min(i + c + 1, Len(tasks)))

\* videoTasks.slice(i, i + concurrency)
Slice(tasks, i, c) == SubSeq(tasks, i + 1, Min(i + c, Len(tasks)))

\* getMediaInfo caught an error of the collaborator.
NoInfo == [title |-> NullStr, type |-> "unknown", season |-> Null,
           episode |-> Null, year |-> Null]

\* A formatNewFilename that names every show and every movie with a title,
\* with or without season and episode.
FormatNewFilenameOfAnyShow(info, originalExt) ==
    IF ~TruthyStr(info.title) \/ info.type = "unknown" THEN NullStr
    ELSE CleanTitle(info.title) \o originalExt

\* formatNewFilename(info, originalExt)
FormatNewFilename(info, originalExt) ==
    IF ~TruthyStr(info.title) \/ info.type = "unknown" THEN NullStr
    ELSE IF info.type = "show" /\ info.season # Null /\ info.episode # Null
         THEN CleanTitle(info.title) \o <<" ", "S">>
                \o PadStart2(NumToStr(info.season)) \o <<"E">>
                \o PadStart2(NumToStr(info.episode))
         ELSE IF info.type = "movie" /\ TruthyNum(info.year)
              THEN CleanTitle(info.title) \o <<" ", "(">>
                     \o NumToStr(info.year) \o <<")">>
              ELSE IF info.type = "movie" THEN CleanTitle(info.title)
                   ELSE NullStr

\* analyzeAndFormatFilename's result once getMediaInfo has returned info
\* (NoInfo for null).
AnalysisResult(originalFilename, info) ==
    IF ExtName(originalFilename) = <<>> \/ info = NoInfo
    THEN [newFilename |-> NullStr, aiInfo |-> NoInfo]
    ELSE [newFilename |-> FormatNewFilename(info, ExtName(originalFilename)),
          aiInfo |-> info]

\* The promises of a chunk right after chunk.map: every task has sent its
\* request for the video file.
Dispatch(tasks) ==
    [k \in 1..Len(tasks) |->
        [videoFile |-> tasks[k].videoFile,
         sidecarFiles |-> tasks[k].sidecarFiles,
         st |-> "video",
         waiting |-> {},
         aiInfo |-> NoInfo,
         result |-> "pending"]]

\* A task that asks for the roles of its sidecars whatever the answer for
\* its video file was.
AnsweredThenSidecars(task, info) ==
    LET analysisResult == AnalysisResult(task.videoFile.originalFilename, info)
        dropped == \/ analysisResult.aiInfo = NoInfo
                   \/ ~TruthyStr(analysisResult.newFilename)
    IN  IF task.sidecarFiles = <<>>
        THEN [task EXCEPT
                !.st = "settled",
                !.aiInfo = IF dropped THEN NoInfo ELSE info,
                !.result = IF ~dropped THEN "item"
                           ELSE IF info = NoInfo THEN "failed" ELSE "unusable"]
        ELSE [task EXCEPT
                !.st = "sidecars",
                !.aiInfo = IF dropped THEN NoInfo ELSE info,
                !.result = IF ~dropped THEN "pending"
                           ELSE IF info = NoInfo THEN "failed" ELSE "unusable",
                !.waiting = 1..Len(task.sidecarFiles)]

\* The promise of a task whose request for the video file was answered.
Answered(task, info) ==
    LET analysisResult == AnalysisResult(task.videoFile.originalFilename, info)
    IN  IF analysisResult.aiInfo = NoInfo
           \/ ~TruthyStr(analysisResult.newFilename)
        THEN [task EXCEPT
                !.st = "settled",
                !.result = IF info = NoInfo THEN "failed" ELSE "unusable"]
        ELSE IF task.sidecarFiles = <<>>
             THEN [task EXCEPT
                     !.st = "settled", !.aiInfo = info, !.result = "item"]
             ELSE [task EXCEPT
                     !.st = "sidecars", !.aiInfo = info,
                     !.waiting = 1..Len(task.sidecarFiles)]

\* A task that is rejected when a sidecar gets no role.
ClassifiedOrRejected(task, j, role) ==
    IF role = NullStr
    THEN [task EXCEPT !.waiting = {}, !.st = "settled", !.result = "failed"]
    ELSE [task EXCEPT
            !.sidecarFiles[j].role = role,
            !.waiting = @ \ {j},
            !.st = IF task.waiting = {j} THEN "settled" ELSE "sidecars",
            !.result = IF task.waiting = {j} THEN "item" ELSE "pending"]

\* The promise of a task one sidecar of which got its role.
Classified(task, j, role) ==
    [task EXCEPT
        !.sidecarFiles[j].role = role,
        !.waiting = @ \ {j},
        !.st = IF task.waiting = {j} THEN "settled" ELSE "sidecars",
        !.result = IF task.waiting = {j} THEN "item" ELSE "pending"]

\* The value a fulfilled promise carries.
ValueOf(task) ==
    [season |-> task.aiInfo.season,
     episode |-> task.aiInfo.episode,
     videoFile |-> task.videoFile,
     sidecarFiles |-> task.sidecarFiles,
     aiInfo |-> task.aiInfo]

\* A fold of the results that gives up at the first one without a value.
RECURSIVE FoldChunkUntilNull(_, _)
FoldChunkUntilNull(blueprint, results) ==
    IF results = <<>> \/ Head(results).result # "item" THEN blueprint
    ELSE FoldChunkUntilNull(AddToBlueprint(blueprint, ValueOf(Head(results))),
                            Tail(results))

\* A fold that adds the results from the last to the first.
RECURSIVE FoldChunkBackwards(_, _)
FoldChunkBackwards(blueprint, results) ==
    IF results = <<>> THEN blueprint
    ELSE LET last == results[Len(results)]
         IN  FoldChunkBackwards(
                IF last.result = "item"
                THEN AddToBlueprint(blueprint, ValueOf(last))
                ELSE blueprint,
                SubSeq(results, 1, Len(results) - 1))

\* chunkResults.forEach: the fulfilled results with a value are added.
RECURSIVE FoldChunk(_, _)
FoldChunk(blueprint, results) ==
    IF results = <<>> THEN blueprint
    ELSE FoldChunk(
            IF Head(results).result = "item"
            THEN AddToBlueprint(blueprint, ValueOf(Head(results)))
            ELSE blueprint,
            Tail(results))

\* The frame of a scanDirectory call that awaits readdir.
Frame(dir) ==
    [dir |-> dir, phase |-> "readdir", tasks |-> <<>>, i |-> 0, next |-> 1]

\* The stack after its innermost frame changed to frame.
WithTop(stk, frame) == [stk EXCEPT ![Len(stk)] = frame]

\* The stack after the innermost call returned.
Pop(stk) == SubSeq(stk, 1, Len(stk) - 1)

\* The index of the first directory entry from index next on, 0 for none.
NextDirectory(entries, next) ==
    LET rest == {n \in next..Len(entries) : entries[n].kind = "dir"}
    IN  IF rest = {} THEN 0
        ELSE CHOOSE n \in rest : \A m \in rest : n <= m

(***************************************************************************)
(* SpecScan: organizeMediaLibrary's loop over sourceDirs, which awaits one  *)
(* scanDirectory(sourceDir, rawBlueprint, concurrency) after another, each *)
(* with its recursive calls.  The loop is the outermost frame of the       *)
(* stack, in the phase of scanDirectory's own loop over subdirectories.    *)
(* The answers of the collaborator are inputs: each                        *)
(* request for a video file is answered by a MediaInfo or fails, each      *)
(* request for a sidecar is answered by a role or by null (a failure is    *)
(* turned into null by analyzeAuxiliaryFileRole).  concurrency is a        *)
(* positive integer.                                                       *)
(***************************************************************************)

\* The largest --concurrency.
MaxConc == 3

\* How many entries a directory drawn from the pool holds at most.
MaxEntries == 2

\* How many chunks the record of the folded chunks holds at most: more than
\* a scan with a positive concurrency folds.
MaxLog == 8

FileNamed(name) == [name |-> name, kind |-> "file"]

DirNamed(name) == [name |-> name, kind |-> "dir"]

SubDirName == <<"a", ".", "d">>

SubDir == Append(SourceRoot, SubDirName)

\* The entries a directory is drawn from, in readdir's order.
EntryPool ==
    <<FileNamed(<<"a", ".", "m", "k", "v">>),
      FileNamed(<<"a", ".", "s", "r", "t">>),
      FileNamed(<<"a", "-", "t", "h", "u", "m", "b", ".", "j", "p", "g">>),
      FileNamed(<<"a">>),
      FileNamed(<<"a", ".", "M", "P", "4">>),
      FileNamed(<<"b", ".", "m", "k", "v">>),
      DirNamed(SubDirName)>>

\* The subsequences of the pool of at most n entries.
PoolEntries(n) ==
    {SelectSeq([k \in 1..Len(EntryPool) |-> <<k, EntryPool[k]>>],
               LAMBDA e : e[1] \in chosen) : chosen \in
        {c \in SUBSET (1..Len(EntryPool)) : Cardinality(c) <= n}}

Names(pairs) == [k \in 1..Len(pairs) |-> pairs[k][2]]

ShowMkv ==
    <<"S", "h", "o", "w", ".", "S", "0", "1", "E", "0", "1", ".", "m", "k",
      "v">>
ShowSrt ==
    <<"S", "h", "o", "w", ".", "S", "0", "1", "E", "0", "1", ".", "s", "r",
      "t">>
ShowThumb ==
    <<"S", "h", "o", "w", ".", "S", "0", "1", "E", "0", "1", "-", "t", "h",
      "u", "m", "b", ".", "j", "p", "g">>

\* The directory of three files of one episode.
EpisodeEntries == <<FileNamed(ShowMkv), FileNamed(ShowSrt), FileNamed(ShowThumb)>>

\* A directory of three videos around its subdirectory.
ThreeVideos ==
    <<FileNamed(<<"a", ".", "m", "k", "v">>),
      FileNamed(<<"b", ".", "m", "k", "v">>),
      DirNamed(SubDirName),
      FileNamed(<<"c", ".", "m", "k", "v">>)>>

RootEntries ==
    {Names(q) : q \in PoolEntries(MaxEntries)} \cup {EpisodeEntries, ThreeVideos}

SubDirEntries ==
    <<FileNamed(<<"e", ".", "m", "k", "v">>),
      FileNamed(<<"e", ".", "n", "f", "o">>),
      FileNamed(<<"e", ".", "j", "p", "g">>)>>

\* organizeMediaLibrary's sourceDirs are held as the entries of the
\* directory <<>>: the first source directory alone, or two of them.
SourceDirs == <<>>

OtherRoot == <<<<"r">>>>

OtherSubDir == Append(SourceRoot, <<"b", ".", "d">>)

\* A directory with two subdirectories before its only video file.
TwoDirs ==
    <<DirNamed(SubDirName),
      DirNamed(<<"b", ".", "d">>),
      FileNamed(<<"b", ".", "m", "k", "v">>)>>

OneVideo == <<FileNamed(<<"f", ".", "m", "k", "v">>)>>

Listed(dir, entries) == (dir :> [readable |-> TRUE, entries |-> entries])

Unlisted(dir) == (dir :> [readable |-> FALSE, entries |-> <<>>])

\* The source directories of a scan.  One source directory: it cannot be
\* read, or it has a subdirectory that can or cannot be read.  Two source
\* directories: the first cannot be read, or it has two subdirectories the
\* first of which can or cannot be read.
Sources ==
    {Listed(SourceDirs, <<DirNamed(SourceRoot[1])>>) @@ Unlisted(SourceRoot)}
    \cup {Listed(SourceDirs, <<DirNamed(SourceRoot[1])>>)
            @@ Listed(SourceRoot, r)
            @@ (IF ok THEN Listed(SubDir, SubDirEntries) ELSE Unlisted(SubDir)) :
                r \in RootEntries, ok \in BOOLEAN}
    \cup {Listed(SourceDirs,
                 <<DirNamed(SourceRoot[1]), DirNamed(OtherRoot[1])>>)
            @@ Unlisted(SourceRoot) @@ Listed(OtherRoot, OneVideo)}
    \cup {Listed(SourceDirs,
                 <<DirNamed(SourceRoot[1]), DirNamed(OtherRoot[1])>>)
            @@ Listed(SourceRoot, TwoDirs)
            @@ (IF ok THEN Listed(SubDir, SubDirEntries) ELSE Unlisted(SubDir))
            @@ Listed(OtherSubDir, OneVideo)
            @@ Listed(OtherRoot, OneVideo) : ok \in BOOLEAN}

\* The answers to a request for a video file; NoInfo is the failed request.
Answers ==
    {[title |-> TA, type |-> "show", season |-> 1, episode |-> 1,
      year |-> 2020],
     [title |-> TB, type |-> "movie", season |-> Null, episode |-> Null,
      year |-> Null],
     [title |-> TX, type |-> "unknown", season |-> Null, episode |-> Null,
      year |-> Null],
     [title |-> TA, type |-> "show", season |-> 1, episode |-> Null,
      year |-> 2020],
     [title |-> <<>>, type |-> "movie", season |-> Null, episode |-> Null,
      year |-> 2020],
     NoInfo}

\* The answers to a request for a sidecar's role.
Roles == {NullStr, RolePoster}

\* The loop over sourceDirs is about to call scanDirectory on the first.
InitScan ==
    /\ pc = "scan"
    /\ rawBlueprint = EmptyBlueprint
    /\ canonicalTitleMap = NoMap
    /\ finalBlueprint = EmptyBlueprint
    /\ SyncIdle
    /\ sourceTree \in Sources
    /\ concurrency \in 1..MaxConc
    /\ stack = <<[Frame(SourceDirs) EXCEPT !.phase = "subdirs"]>>
    /\ chunk = <<>>
    /\ visited = EmptyObj
    /\ chunks = <<>>

\* The state after the loop over the chunks has folded the chunk awaited (if
\* any) and gone on from index i: the next chunk is dispatched, or the loop
\* over the subdirectories begins.
GoOn(frame, i) ==
    IF i < Len(frame.tasks)
    THEN /\ chunk' = Dispatch(Slice(frame.tasks, i, concurrency))
         /\ stack' = WithTop(stack, [frame EXCEPT !.i = i, !.phase = "chunk"])
    ELSE /\ chunk' = <<>>
         /\ stack' = WithTop(stack, [frame EXCEPT !.i = i, !.phase = "subdirs"])

\* A scanDirectory that lets the error of fs.readdir(dir) out: every call
\* that awaits it ends with it, and so does the loop over sourceDirs.
ReaddirThrows ==
    /\ pc = "scan"
    /\ stack # <<>>
    /\ LET frame == stack[Len(stack)]
       IN  /\ frame.phase = "readdir"
           /\ ~sourceTree[frame.dir].readable
           /\ visited' = (frame.dir :> [readable |-> FALSE, groups |-> <<>>,
                                        tasks |-> <<>>]) @@ visited
           /\ stack' = <<>>
           /\ pc' = "scanned"
    /\ UNCHANGED <<consVars, syncVars, sourceTree, concurrency, chunk, chunks>>

\* fs.readdir(dir) throws: the call returns.
ReaddirFails ==
    /\ pc = "scan"
    /\ stack # <<>>
    /\ LET frame == stack[Len(stack)]
       IN  /\ frame.phase = "readdir"
           /\ ~sourceTree[frame.dir].readable
           /\ visited' = (frame.dir :> [readable |-> FALSE, groups |-> <<>>,
                                        tasks |-> <<>>]) @@ visited
           /\ stack' = Pop(stack)
           /\ pc' = IF Len(stack) = 1 THEN "scanned" ELSE "scan"
    /\ UNCHANGED <<consVars, syncVars, sourceTree, concurrency, chunk, chunks>>

\* fs.readdir(dir) returns: the files are grouped, the tasks are built and
\* the first chunk is dispatched.
ReaddirReturns ==
    /\ pc = "scan"
    /\ stack # <<>>
    /\ LET frame == stack[Len(stack)]
       IN  /\ frame.phase = "readdir"
           /\ sourceTree[frame.dir].readable
           /\ \E groups \in {GroupEntries(frame.dir,
                                           sourceTree[frame.dir].entries,
                                           <<>>)} :
                \E videoTasks \in {VideoTasks(groups)} :
                    /\ visited' =
                          (frame.dir :> [readable |-> TRUE, groups |-> groups,
                                         tasks |-> videoTasks]) @@ visited
                    /\ GoOn([frame EXCEPT !.tasks = videoTasks], 0)
    /\ UNCHANGED <<pc, consVars, syncVars, sourceTree, concurrency, chunks>>

\* A task that adds its own item to the Blueprint as soon as the request
\* for its video file is answered.
VideoAnsweredThenAdded ==
    /\ pc = "scan"
    /\ \E k \in 1..Len(chunk), info \in Answers :
          /\ chunk[k].st = "video"
          /\ chunk' = [chunk EXCEPT ![k] = Answered(chunk[k], info)]
          /\ rawBlueprint' =
                IF Answered(chunk[k], info).result = "item"
                THEN AddToBlueprint(rawBlueprint,
                                    ValueOf(Answered(chunk[k], info)))
                ELSE rawBlueprint
    /\ UNCHANGED <<pc, canonicalTitleMap, finalBlueprint, syncVars, sourceTree,
                   concurrency, stack, visited, chunks>>

\* The request for the video file of the k-th task of the chunk is answered.
VideoAnswered ==
    /\ pc = "scan"
    /\ \E k \in 1..Len(chunk), info \in Answers :
          /\ chunk[k].st = "video"
          /\ chunk' = [chunk EXCEPT ![k] = Answered(chunk[k], info)]
    /\ UNCHANGED <<pc, consVars, syncVars, sourceTree, concurrency, stack, visited,
                   chunks>>

\* The request for a sidecar of the k-th task of the chunk is answered.
SidecarAnswered ==
    /\ pc = "scan"
    /\ \E k \in 1..Len(chunk), role \in Roles :
          /\ chunk[k].st = "sidecars"
          /\ \E j \in chunk[k].waiting :
                chunk' = [chunk EXCEPT ![k] = Classified(chunk[k], j, role)]
    /\ UNCHANGED <<pc, consVars, syncVars, sourceTree, concurrency, stack, visited,
                   chunks>>

\* A combinator that resolves as soon as one promise has settled.
AnySettled(promises) ==
    \E k \in 1..Len(promises) : promises[k].st = "settled"

\* Promise.allSettled(promises) resolves when every promise has settled.
AllSettled(promises) ==
    \A k \in 1..Len(promises) : promises[k].st = "settled"

\* Promise.allSettled(promises) resolves: the results are folded and the
\* loop goes on.
ChunkSettled ==
    /\ pc = "scan"
    /\ stack # <<>>
    /\ LET frame == stack[Len(stack)]
       IN  /\ frame.phase = "chunk"
           /\ AllSettled(chunk)
           /\ rawBlueprint' = FoldChunk(rawBlueprint, chunk)
           /\ chunks' =
                IF Len(chunks) < MaxLog
                THEN Append(chunks,
                            [dir |-> frame.dir,
                             tasks |->
                                [k \in 1..Len(chunk) |->
                                    [video |-> chunk[k].videoFile.sourcePath,
                                     result |-> chunk[k].result]]])
                ELSE chunks
           /\ GoOn(frame, frame.i + concurrency)
    /\ UNCHANGED <<pc, canonicalTitleMap, finalBlueprint, syncVars, sourceTree,
                   concurrency, visited>>

\* The loop over the entries calls scanDirectory on the next subdirectory.
Descend ==
    /\ pc = "scan"
    /\ stack # <<>>
    /\ LET frame == stack[Len(stack)]
           n == NextDirectory(sourceTree[frame.dir].entries, frame.next)
       IN  /\ frame.phase = "subdirs"
           /\ n # 0
           /\ stack' =
                Append(WithTop(stack, [frame EXCEPT !.next = n + 1]),
                       Frame(PathJoin(frame.dir,
                                      sourceTree[frame.dir].entries[n].name)))
    /\ UNCHANGED <<pc, consVars, syncVars, sourceTree, concurrency, chunk, visited,
                   chunks>>

\* The loop over the entries is over: the call returns.
Return ==
    /\ pc = "scan"
    /\ stack # <<>>
    /\ LET frame == stack[Len(stack)]
       IN  /\ frame.phase = "subdirs"
           /\ NextDirectory(sourceTree[frame.dir].entries, frame.next) = 0
           /\ stack' = Pop(stack)
           /\ pc' = IF Len(stack) = 1 THEN "scanned" ELSE "scan"
    /\ UNCHANGED <<consVars, syncVars, sourceTree, concurrency, chunk, visited,
                   chunks>>

NextScan ==
    \/ ReaddirFails
    \/ ReaddirReturns
    \/ VideoAnswered
    \/ SidecarAnswered
    \/ ChunkSettled
    \/ Descend
    \/ Return

SpecScan == InitScan /\ [][NextScan]_vars

(***************************************************************************)
(* SpecScanFair: the scan with the concurrency the command line gives it:  *)
(* parseInt(options.concurrency, 10), which nothing compares with 0, and   *)
(* with every request answered in the end and every continuation that can  *)
(* run run in the end.                                                     *)
(***************************************************************************)

InitScanAny ==
    /\ pc = "scan"
    /\ rawBlueprint = EmptyBlueprint
    /\ canonicalTitleMap = NoMap
    /\ finalBlueprint = EmptyBlueprint
    /\ SyncIdle
    /\ sourceTree \in Sources
    /\ concurrency \in 0..MaxConc
    /\ stack = <<[Frame(SourceDirs) EXCEPT !.phase = "subdirs"]>>
    /\ chunk = <<>>
    /\ visited = EmptyObj
    /\ chunks = <<>>

SpecScanFair == InitScanAny /\ [][NextScan]_vars /\ WF_vars(NextScan)

(***************************************************************************)
(* Properties of SpecScan                                                  *)
(***************************************************************************)

\* The places of the Blueprint that hold the item of a video file.
Occurrences(video) ==
    {p \in UNION {{<<title, n>> : n \in 1..Len(rawBlueprint.rec[title].items)} :
                    title \in DOMAIN rawBlueprint.rec} :
        rawBlueprint.rec[p[1]].items[p[2]].videoFile.sourcePath = video}

\* The subdirectories a readable directory lists.
SubDirsOf(dir) ==
    IF sourceTree[dir].readable
    THEN {PathJoin(dir, sourceTree[dir].entries[n].name) :
            n \in {m \in 1..Len(sourceTree[dir].entries) :
                        sourceTree[dir].entries[m].kind = "dir"}}
    ELSE {}

\* The directories that can be reached from dirs through readable ones.
RECURSIVE Below(_)
Below(dirs) ==
    LET more == dirs \cup UNION {SubDirsOf(d) : d \in dirs}
    IN  IF more = dirs THEN dirs ELSE Below(more)

\* The chunk tasks, as <<n, k>>, that were dispatched for a video file.
DispatchesOf(video) ==
    {p \in UNION {{<<n, k>> : k \in 1..Len(chunks[n].tasks)} :
                    n \in 1..Len(chunks)} :
        chunks[p[1]].tasks[p[2]].video = video}

\* C2: whatever tasks of a chunk fail, every task of the chunk with a usable
\* classification is in the Blueprint exactly once after the chunk's fold,
\* a failed or unusable task and a task not yet folded are not in it, and
\* the scan is not aborted: when it ends, every directory below the source
\* that can be reached was read and every task of every directory went
\* through exactly one chunk.
C2_FailuresAreIsolated ==
    /\ \A n \in 1..Len(chunks) : \A k \in 1..Len(chunks[n].tasks) :
            Cardinality(Occurrences(chunks[n].tasks[k].video)) =
                IF chunks[n].tasks[k].result = "item" THEN 1 ELSE 0
    /\ \A k \in 1..Len(chunk) :
            Occurrences(chunk[k].videoFile.sourcePath) = {}
    /\ pc = "scanned" =>
            /\ Below(SubDirsOf(SourceDirs)) = DOMAIN visited
            /\ \A dir \in DOMAIN visited :
                    \A k \in 1..Len(visited[dir].tasks) :
                        Cardinality(DispatchesOf(
                            visited[dir].tasks[k].videoFile.sourcePath)) = 1

\* The scan has ended; the second of the three tasks of a chunk failed, the
\* two others are in the Blueprint, and a chunk of the subdirectory was
\* folded after it.
C2_Witness ==
    /\ pc = "scanned"
    /\ \E n \in 1..Len(chunks) :
            /\ Len(chunks[n].tasks) = 3
            /\ chunks[n].tasks[1].result = "item"
            /\ chunks[n].tasks[2].result = "failed"
            /\ chunks[n].tasks[3].result = "item"
            /\ Occurrences(chunks[n].tasks[1].video) # {}
            /\ Occurrences(chunks[n].tasks[3].video) # {}
            /\ \E m \in (n + 1)..Len(chunks) :
                    /\ chunks[m].dir = SubDir
                    /\ chunks[m].tasks[1].result = "item"

\* C3: the requests for video files that were sent and not yet answered
\* are at most concurrency, and so are the promises not yet settled.
C3_AtMostConcurrencyInFlight ==
    /\ Cardinality({k \in 1..Len(chunk) : chunk[k].st = "video"})
            <= concurrency
    /\ Cardinality({k \in 1..Len(chunk) : chunk[k].st # "settled"})
            <= concurrency

\* With concurrency 2, two requests are in flight while a third task of
\* the directory waits for the next chunk.
C3_Witness ==
    /\ concurrency = 2
    /\ Cardinality({k \in 1..Len(chunk) : chunk[k].st = "video"}) = 2
    /\ stack # <<>>
    /\ Len(stack[Len(stack)].tasks) = 3
    /\ stack[Len(stack)].i = 0

\* The names of the files of a sequence of MediaFile.
FileNames(files) == {files[k].originalFilename : k \in 1..Len(files)}

\* C9: for a directory that holds exactly Show.S01E01.mkv, Show.S01E01.srt
\* and Show.S01E01-thumb.jpg the scan forms one group of the three files
\* and one task, with the .mkv as video file and the two others as
\* sidecars.
C9_ThumbJoinsItsEpisode ==
    \A dir \in DOMAIN visited :
        (/\ visited[dir].readable
         /\ Len(sourceTree[dir].entries) = 3
         /\ {sourceTree[dir].entries[n] : n \in 1..3} =
                {FileNamed(ShowMkv), FileNamed(ShowSrt), FileNamed(ShowThumb)})
        => /\ Len(visited[dir].groups) = 1
           /\ FileNames(visited[dir].groups[1].files) =
                {ShowMkv, ShowSrt, ShowThumb}
           /\ Len(visited[dir].tasks) = 1
           /\ visited[dir].tasks[1].videoFile.originalFilename = ShowMkv
           /\ FileNames(visited[dir].tasks[1].sidecarFiles) =
                {ShowSrt, ShowThumb}

\* A file name without its last extension: what precedes the last "." that
\* is not the first character.
Stem(name) ==
    LET dots == {n \in 2..Len(name) : name[n] = "."}
    IN  IF dots = {} THEN name
        ELSE SubSeq(name, 1, (CHOOSE n \in dots : \A m \in dots : m <= n) - 1)

\* The groups, as indices, that hold a file of the given name.
GroupsOf(groups, name) ==
    {g \in 1..Len(groups) : name \in FileNames(groups[g].files)}

C11_TargetIsAppendOnly ==
    /\ [][\A p \in DOMAIN tree : p \in DOMAIN tree' /\ tree'[p] = tree[p]]_vars
    /\ [](\A i \in 1..Len(attempts) :
            attempts[i].err = "EEXIST" =>
                /\ ~attempts[i].logged
                /\ attempts[i].destination \in DOMAIN tree)

\* A symbolic link was attempted where the first run found a regular file,
\* and the regular file is still there.
C11_Witness ==
    /\ linkType = "soft"
    /\ \E i \in 1..Len(attempts) :
            /\ attempts[i].err = "EEXIST"
            /\ tree[attempts[i].destination] = FileEntry

\* The entry at path p is a link to the source file.
LinksTo(p, sourcePath) ==
    /\ p \in DOMAIN tree
    /\ \/ tree[p] = [kind |-> "symlink", ref |-> AbsolutePath(sourcePath)]
       \/ tree[p] = [kind |-> "symlink",
                     ref |-> PathRelative(Dirname(p), sourcePath)]
       \/ tree[p] = [kind |-> "file", ref |-> AbsolutePath(sourcePath)]

\* An item the synchronizer can link: a movie, or a show with season and
\* episode.
Linkable(series, item) ==
    series.type # "show" \/ (item.season # Null /\ item.episode # Null)

\* C12: when the collaborator returned no mapping, a completed non-debug
\* run has linked the video file of every linkable item of every raw
\* record, in a series directory and under a name that start with the
\* record's sanitized raw title.
C12_DegradedRunStillLinks ==
    (pc = "done" /\ ~isDebugMode /\ canonicalTitleMap = NoMap) =>
        \A title \in DOMAIN rawBlueprint.rec :
            \A n \in 1..Len(rawBlueprint.rec[title].items) :
                LET series == rawBlueprint.rec[title]
                    item == series.items[n]
                IN  Linkable(series, item) =>
                        \E p \in DOMAIN tree :
                            /\ Len(p) >= 3
                            /\ IsPrefix(CleanTitle(title), p[2])
                            /\ IsPrefix(CleanTitle(title), p[Len(p)])
                            /\ LinksTo(p, item.videoFile.sourcePath)

\* C14: in debug mode the probe is not run (the membership set stays
\* empty), generateLinks is never called, no step changes the target tree,
\* and the only write is one JSON file of the plan.
C14_DebugLeavesTargetAlone ==
    /\ [][isDebugMode => tree' = tree]_vars
    /\ [](isDebugMode =>
            /\ existingState = {}
            /\ attempts = <<>>
            /\ pc \in {"probe", "plan", "done"}
            /\ Len(written) <= 1
            /\ \A w \in 1..Len(written) :
                    /\ written[w].file = DebugFileName
                    /\ written[w].data = finalBlueprint
            /\ pc = "done" => Len(written) = 1)

\* A debug run has ended with its plan written, on a target in which a
\* probe would have found a link and with a plan whose items a
\* synchronizer would have linked.
C14_Witness ==
    /\ isDebugMode
    /\ pc = "done"
    /\ Len(written) = 1
    /\ linkType = "soft"
    /\ BuildExistingState(tree, TargetRoot, linkType) # {}
    /\ Worklist(finalBlueprint, 1) # <<>>

\* C15: a link that was created is, for type soft and mode absolute, a
\* symbolic link to the absolute source path; for type soft and mode
\* relative, a symbolic link to the shortest relative path that leads from
\* the destination's directory to the source; for type hard, a hard link of
\* the absolute source path in either mode.
C15_LinkTargetByMode ==
    \A i \in 1..Len(attempts) :
        LET a == attempts[i]
            entry == tree[a.destination]
            from == Dirname(a.destination)
            sourcePath == a.file.sourcePath
        IN  a.err = "" =>
                IF linkType = "hard"
                THEN /\ entry.kind = "file"
                     /\ entry.ref = [rel |-> FALSE, up |-> 0,
                                     comps |-> sourcePath]
                ELSE IF pathMode = "absolute"
                     THEN /\ entry.kind = "symlink"
                          /\ entry.ref = [rel |-> FALSE, up |-> 0,
                                          comps |-> sourcePath]
                     ELSE /\ entry.kind = "symlink"
                          /\ entry.ref.rel
                          /\ entry.ref.up <= Len(from)
                          /\ SubSeq(from, 1, Len(from) - entry.ref.up)
                                \o entry.ref.comps = sourcePath
                          /\ \/ entry.ref.up = 0
                             \/ entry.ref.comps = <<>>
                             \/ entry.ref.comps[1] #
                                    from[Len(from) - entry.ref.up + 1]

\* A relative symbolic link was created in a season directory: it climbs
\* three directories to reach the source.
C15_Witness ==
    /\ linkType = "soft"
    /\ pathMode = "relative"
    /\ \E i \in 1..Len(attempts) :
            /\ attempts[i].err = ""
            /\ tree[attempts[i].destination].ref.rel
            /\ tree[attempts[i].destination].ref.up = 3

(***************************************************************************)
(* More properties of SpecCons                                             *)
(***************************************************************************)

\* Every item of every record of the Blueprint has the record's type.
TypesAgree(blueprint) ==
    \A title \in DOMAIN blueprint.rec :
        \A n \in 1..Len(blueprint.rec[title].items) :
            blueprint.rec[title].items[n].aiInfo.type =
                blueprint.rec[title].type

\* C13: in the raw Blueprint and in the consolidated Blueprint every item
\* of a record is classified with the record's type.
C13_ItemsHaveTheRecordType ==
    TypesAgree(rawBlueprint) /\ TypesAgree(finalBlueprint)

\* The number of items of a record classified with the year y.
ItemsOfYear(series, y) ==
    Cardinality({n \in 1..Len(series.items) : series.items[n].aiInfo.year = y})

\* The years given to items of a record.
YearsOf(series) ==
    {series.items[n].aiInfo.year : n \in 1..Len(series.items)} \ {Null}

\* C18: in the raw Blueprint, the record under title T counts in titleVotes
\* the one key T, as many times as the record has items; its yearVotes
\* count, for each year, the items classified with that year and have no
\* other key; its items were all classified with title T and its type is
\* the type of its first item.
C18_FoldRule ==
    \A title \in DOMAIN rawBlueprint.rec :
        LET series == rawBlueprint.rec[title]
        IN  /\ series.items # <<>>
            /\ DOMAIN series.titleVotes = {title}
            /\ series.titleVotes[title] = Len(series.items)
            /\ DOMAIN series.yearVotes = {NumToStr(y) : y \in YearsOf(series)}
            /\ \A y \in YearsOf(series) :
                    series.yearVotes[NumToStr(y)] = ItemsOfYear(series, y)
            /\ \A n \in 1..Len(series.items) :
                    series.items[n].aiInfo.title = title
            /\ series.type = series.items[1].aiInfo.type

\* Three items were folded under one title: two of one year and one
\* without a year.
C18_Witness ==
    \E title \in DOMAIN rawBlueprint.rec :
        /\ Len(rawBlueprint.rec[title].items) = 3
        /\ ItemsOfYear(rawBlueprint.rec[title], 2020) = 2
        /\ ItemsOfYear(rawBlueprint.rec[title], Null) = 1

\* The places, in the iteration order of the tally, of the years no other
\* year has more votes than.
Leaders(yearVotes) ==
    {i \in 1..Len(YearEntries(yearVotes)) :
        \A j \in 1..Len(YearEntries(yearVotes)) :
            YearEntries(yearVotes)[j][2] <= YearEntries(yearVotes)[i][2]}

\* C19, as stated: canonicalYear is the year of the first of the entries
\* with the highest count, in the iteration order of the tally.
C19_TieGoesToFirstEntry ==
    Merged =>
        \A c \in DOMAIN finalBlueprint.rec :
            LET votes == finalBlueprint.rec[c].yearVotes
                first == CHOOSE i \in Leaders(votes) :
                            \A j \in Leaders(votes) : i <= j
            IN  DOMAIN votes # {} =>
                    finalBlueprint.rec[c].canonicalYear =
                        ParseInt(YearEntries(votes)[first][1])

\* C19, amended: canonicalYear is the year of the last of the entries with
\* the highest count, in the iteration order of the tally (for year keys,
\* the greatest of the tied years).
C19_TieGoesToLastEntry ==
    Merged =>
        \A c \in DOMAIN finalBlueprint.rec :
            LET votes == finalBlueprint.rec[c].yearVotes
                last == CHOOSE i \in Leaders(votes) :
                            \A j \in Leaders(votes) : j <= i
            IN  DOMAIN votes # {} =>
                    /\ finalBlueprint.rec[c].canonicalYear =
                            ParseInt(YearEntries(votes)[last][1])
                    /\ \A y \in DOMAIN votes :
                            votes[y] = votes[YearEntries(votes)[last][1]]
                                => ParseInt(y) <=
                                        finalBlueprint.rec[c].canonicalYear

\* 2020 and 2021 have one vote each and 2021 is elected.
C19_Witness ==
    /\ Merged
    /\ \E c \in DOMAIN finalBlueprint.rec :
          /\ finalBlueprint.rec[c].yearVotes =
                (NumToStr(2020) :> 1) @@ (NumToStr(2021) :> 1)
          /\ finalBlueprint.rec[c].canonicalYear = 2021

\* C20: every record of a Blueprint that consolidation returned has a
\* canonicalTitle, equal to the key the record is stored under.
C20_CanonicalTitleIsKey ==
    pc = "done" =>
        \A key \in DOMAIN finalBlueprint.rec :
            /\ finalBlueprint.rec[key].canonicalTitle # NullStr
            /\ finalBlueprint.rec[key].canonicalTitle = key

(***************************************************************************)
(* More properties of SpecScan                                             *)
(***************************************************************************)

\* The step sends the request for the video file of a task.
Dispatches ==
    \E k \in 1..Len(chunk') :
        /\ chunk'[k].st = "video"
        /\ \/ k > Len(chunk)
           \/ chunk[k].st # "video"
           \/ chunk[k].videoFile # chunk'[k].videoFile

\* Every request of the chunk awaited has been answered.
NothingInFlight ==
    \A k \in 1..Len(chunk) : chunk[k].st = "settled" /\ chunk[k].waiting = {}

\* C16: a step that sends requests of a chunk is taken only when every
\* task of the chunk before it has settled, and a step that enters a
\* subdirectory only when no chunk is awaited and every task of the
\* directory has gone through a settled chunk.
C16_ChunksInOrder ==
    /\ [][Dispatches => NothingInFlight]_vars
    /\ [][Len(stack') > Len(stack) =>
            /\ chunk = <<>>
            /\ stack[Len(stack)].i >= Len(stack[Len(stack)].tasks)
            /\ \A k \in 1..Len(stack[Len(stack)].tasks) :
                    \E n \in 1..Len(chunks) :
                        \E j \in 1..Len(chunks[n].tasks) :
                            /\ chunks[n].tasks[j].video =
                                stack[Len(stack)].tasks[k].videoFile.sourcePath
                            /\ chunks[n].tasks[j].result # "pending"]_vars

\* The second chunk of a directory is in flight after its first chunk of
\* two tasks was folded, and the directory's subdirectory is not entered.
C16_Witness ==
    /\ Len(stack) = 2
    /\ stack[2].i = 2
    /\ Len(chunks) = 1
    /\ Len(chunks[1].tasks) = 2
    /\ Len(chunk) = 1
    /\ chunk[1].st = "video"
    /\ NextDirectory(sourceTree[stack[2].dir].entries, 1) # 0

\* C17: the Blueprint changes only in a step taken when no request of the
\* chunk awaited, for a video file or for a sidecar, is in flight.
C17_SingleWriter ==
    [][rawBlueprint' # rawBlueprint => NothingInFlight]_vars

\* All the tasks of a chunk of two or more were folded into the Blueprint
\* together.
C17_Witness ==
    \E n \in 1..Len(chunks) :
        /\ Len(chunks[n].tasks) >= 2
        /\ \A k \in 1..Len(chunks[n].tasks) :
                /\ chunks[n].tasks[k].result = "item"
                /\ Occurrences(chunks[n].tasks[k].video) # {}
        /\ chunk = <<>>

(***************************************************************************)
(* Properties of SpecScan: answers that fail                               *)
(***************************************************************************)

\* The items of the Blueprint.
BlueprintItems ==
    UNION {Range(rawBlueprint.rec[title].items) :
            title \in DOMAIN rawBlueprint.rec}

\* C21: a video file whose request failed or was answered with a type of
\* unknown (or with anything else formatNewFilename gives no name for) is
\* dropped: its task settles at once with no request for a sidecar sent and
\* no role set, it never is in the Blueprint, whose items all carry a usable
\* answer and a file name with an extension, and no video file is sent a
\* second request: it goes through at most one chunk, once.
C21_DroppedItems ==
    /\ \A k \in 1..Len(chunk) :
            chunk[k].result \in {"failed", "unusable"} =>
                /\ chunk[k].st = "settled"
                /\ chunk[k].waiting = {}
                /\ \A j \in 1..Len(chunk[k].sidecarFiles) :
                        chunk[k].sidecarFiles[j].role = NullStr
    /\ \A n \in 1..Len(chunks) : \A k \in 1..Len(chunks[n].tasks) :
            /\ chunks[n].tasks[k].result \in {"failed", "unusable"} =>
                    Occurrences(chunks[n].tasks[k].video) = {}
            /\ DispatchesOf(chunks[n].tasks[k].video) = {<<n, k>>}
            /\ \A j \in 1..Len(chunk) :
                    chunk[j].videoFile.sourcePath # chunks[n].tasks[k].video
    /\ \A j, k \in 1..Len(chunk) :
            chunk[j].videoFile.sourcePath = chunk[k].videoFile.sourcePath
                => j = k
    /\ \A item \in BlueprintItems :
            /\ item.aiInfo # NoInfo
            /\ item.aiInfo.type \in {"show", "movie"}
            /\ ExtName(item.videoFile.originalFilename) # <<>>

\* The scan has ended; the request of one video file failed, another was
\* answered with the type unknown, the second has a sidecar, and neither is
\* in the Blueprint.
C21_Witness ==
    /\ pc = "scanned"
    /\ \E n, m \in 1..Len(chunks) :
            /\ chunks[n].tasks[1].result = "failed"
            /\ chunks[m].tasks[1].result = "unusable"
            /\ Occurrences(chunks[n].tasks[1].video) = {}
            /\ Occurrences(chunks[m].tasks[1].video) = {}
            /\ visited[chunks[m].dir].tasks[1].sidecarFiles # <<>>

\* The steps that leave the chunk awaited in place.
SameChunk == chunks' = chunks /\ stack' = stack /\ Len(chunk') = Len(chunk)

\* C22: a task whose video file got a usable answer is never dropped,
\* whichever of its sidecars get no role: it settles with a value; the
\* answer for one sidecar sets that sidecar's role and leaves the roles of
\* the others as they are; the fold puts the task's item into the Blueprint
\* with the task's sidecars as they are then; and every item of the
\* Blueprint has all the other files of its group as sidecars, in the
\* group's order, each with a role that was answered or with none.
C22_SidecarFailureKeepsItem ==
    /\ [](/\ \A k \in 1..Len(chunk) :
                chunk[k].aiInfo # NoInfo =>
                    /\ chunk[k].result \in {"pending", "item"}
                    /\ chunk[k].st = "settled" => chunk[k].result = "item"
          /\ \A item \in BlueprintItems :
                \E dir \in DOMAIN visited :
                    \E k \in 1..Len(visited[dir].tasks) :
                        LET task == visited[dir].tasks[k]
                        IN  /\ task.videoFile = item.videoFile
                            /\ Len(item.sidecarFiles) = Len(task.sidecarFiles)
                            /\ \A j \in 1..Len(task.sidecarFiles) :
                                /\ item.sidecarFiles[j].sourcePath =
                                        task.sidecarFiles[j].sourcePath
                                /\ item.sidecarFiles[j].originalFilename =
                                        task.sidecarFiles[j].originalFilename
                                /\ item.sidecarFiles[j].role \in Roles)
    /\ [][SameChunk =>
            \A k \in 1..Len(chunk) : \A j \in 1..Len(chunk[k].sidecarFiles) :
                \/ j \in chunk[k].waiting /\ j \notin chunk'[k].waiting
                \/ chunk'[k].sidecarFiles[j] = chunk[k].sidecarFiles[j]]_vars
    /\ [][chunks' # chunks =>
            \A k \in 1..Len(chunk) :
                chunk[k].aiInfo # NoInfo =>
                    \E item \in BlueprintItems' :
                        /\ item.videoFile = chunk[k].videoFile
                        /\ item.sidecarFiles = chunk[k].sidecarFiles
                        /\ item.aiInfo = chunk[k].aiInfo]_vars

\* An item of the Blueprint has two sidecars: the request for the first
\* failed, the second kept the role it was given.
C22_Witness ==
    \E item \in BlueprintItems :
        /\ Len(item.sidecarFiles) = 2
        /\ item.sidecarFiles[1].role = NullStr
        /\ item.sidecarFiles[2].role = RolePoster

\* C23: a directory whose listing failed has no task, no chunk and no item
\* of the Blueprint below it; the step that meets the failure only ends that
\* one scanDirectory call, the call or loop that awaits it is where it was;
\* and when the scan ends, every directory that can be reached from the
\* source directories through listed ones was visited, the siblings of an
\* unlisted directory and the source directories after it included, and
\* every task of theirs went through a chunk.
C23_UnlistableDirectory ==
    /\ [](/\ \A dir \in DOMAIN visited :
                ~visited[dir].readable =>
                    /\ visited[dir].tasks = <<>>
                    /\ \A n \in 1..Len(chunks) : chunks[n].dir # dir
                    /\ \A item \in BlueprintItems :
                            ~IsPrefix(dir, item.videoFile.sourcePath)
          /\ pc = "scanned" =>
                /\ Below(SubDirsOf(SourceDirs)) = DOMAIN visited
                /\ \A dir \in DOMAIN visited :
                        \A k \in 1..Len(visited[dir].tasks) :
                            DispatchesOf(visited[dir].tasks[k]
                                            .videoFile.sourcePath) # {})
    /\ [][(\E dir \in DOMAIN visited' \ DOMAIN visited :
                ~visited'[dir].readable) =>
            /\ pc' = "scan"
            /\ stack' = Pop(stack)
            /\ rawBlueprint' = rawBlueprint
            /\ chunk' = chunk
            /\ chunks' = chunks]_vars

\* The scan has ended; the first subdirectory of the first source directory
\* could not be listed, and the video files of its sibling, of its parent
\* and of the second source directory are in the Blueprint.
C23_Witness ==
    /\ pc = "scanned"
    /\ SubDir \in DOMAIN visited
    /\ ~visited[SubDir].readable
    /\ \A dir \in {OtherSubDir, SourceRoot, OtherRoot} :
            /\ dir \in DOMAIN visited
            /\ visited[dir].tasks # <<>>
            /\ Occurrences(visited[dir].tasks[1].videoFile.sourcePath) # {}

(***************************************************************************)
(* Properties of SpecSync: the probe and the errors of the file system     *)
(***************************************************************************)

\* The name holds the pattern from index i on.
HoldsAt(name, pattern, i) ==
    /\ i + Len(pattern) - 1 <= Len(name)
    /\ SubSeq(name, i, i + Len(pattern) - 1) = pattern

Contains(name, pattern) == \E i \in 1..Len(name) : HoldsAt(name, pattern, i)

\* The greatest season or episode number looked for in a name.
MaxNumber == 12

\* The entries of the target that lie directly inside a directory whose
\* name starts with "season", itself directly inside a directory directly
\* inside the target directory.
EpisodePlaces ==
    {p \in DOMAIN tree :
        /\ Len(p) = Len(TargetRoot) + 3
        /\ IsPrefix(TargetRoot, p)
        /\ tree[SubSeq(p, 1, Len(p) - 2)].kind = "dir"
        /\ tree[SubSeq(p, 1, Len(p) - 1)].kind = "dir"
        /\ StartsWith(ToLowerCase(p[Len(p) - 1]), SeasonPrefix)}

\* C26: the probe's set is empty in hard link mode, and in soft link mode
\* every identity of it is seriesName-S<season>E<episode> for a symbolic
\* link in a season directory of the series directory (seriesName being
\* that directory's name without a " (dddd)" suffix) whose name holds
\* S<NN>E<NN> for these numbers, in either case of the letters.
C26_OnlySymlinksCount ==
    /\ linkType = "hard" => existingState = {}
    /\ \A id \in existingState :
            \E p \in EpisodePlaces :
                /\ tree[p].kind = "symlink"
                /\ \E season, episode \in 0..MaxNumber :
                    /\ id = SeriesNameOf(p[Len(p) - 2])
                                \o <<"-", "S">> \o NumToStr(season)
                                \o <<"E">> \o NumToStr(episode)
                    /\ Contains(ToLowerCase(p[Len(p)]),
                                <<"s">> \o PadStart2(NumToStr(season))
                                    \o <<"e">> \o PadStart2(NumToStr(episode)))

\* A probe in soft link mode has returned the identity of a symbolic link
\* while a regular file named like an episode lies in a season directory:
\* the file's identity is not in the set.
C26_Witness ==
    /\ linkType = "soft"
    /\ pc = "link"
    /\ existingState # {}
    /\ \E p \in EpisodePlaces :
            /\ tree[p].kind = "file"
            /\ EpisodeMatch(p[Len(p)]) # <<>>
            /\ UniqueId(SeriesNameOf(p[Len(p) - 2]), EpisodeMatch(p[Len(p)])[1],
                        EpisodeMatch(p[Len(p)])[2]) \notin existingState

\* The record and the item the n-th turn of generateLinks' loops is for.
SeriesAt(n) ==
    finalBlueprint.rec[finalBlueprint.ord[Worklist(finalBlueprint, 1)[n][1]]]

ItemAt(n) == SeriesAt(n).items[Worklist(finalBlueprint, 1)[n][2]]

\* The item of the n-th turn is an episode of a show whose identity, the
\* sanitized title, "-S", the season, "E" and the episode, the numbers as
\* they are, is in existingState.
AlreadyLinked(n) ==
    /\ n \in 1..Len(Worklist(finalBlueprint, 1))
    /\ SeriesAt(n).type = "show"
    /\ ItemAt(n).season # Null
    /\ ItemAt(n).episode # Null
    /\ CleanTitle(SeriesAt(n).canonicalTitle) \o <<"-", "S">>
            \o NumToStr(ItemAt(n).season) \o <<"E">>
            \o NumToStr(ItemAt(n).episode) \in existingState

\* C27: the turn of generateLinks' loop for an episode whose identity is in
\* existingState creates no directory, calls createLink neither for the
\* video file nor for a sidecar, leaves the target as it is, throws nothing
\* and goes on to the next item.
C27_LinkedItemsAreSkipped ==
    [][pc = "link" /\ AlreadyLinked(cursor) =>
            /\ tree' = tree
            /\ attempts' = attempts
            /\ thrown' = thrown
            /\ cursor' = cursor + 1
            /\ pc' = "link"]_vars

\* The second run has passed its first item, an episode with two sidecars
\* whose identity the probe returned, without a createLink call.
C27_Witness ==
    /\ run = 2
    /\ pc = "link"
    /\ cursor = 2
    /\ attempts = <<>>
    /\ tree = tree1
    /\ AlreadyLinked(1)
    /\ Len(ItemAt(1).sidecarFiles) = 2

\* C29: fs.mkdir's failure for the directory of one item leaves generateLinks
\* as no exception, and the run never ends with items left unprocessed.
C29_MkdirErrorsAreIsolated ==
    /\ ~thrown
    /\ pc # "aborted"

(***************************************************************************)
(* Properties of SpecFault                                                 *)
(***************************************************************************)

\* The probe has just returned.
ProbeReturned == pc = "link" /\ cursor = 1 /\ attempts = <<>>

\* C24: a soft link probe that met an error of the file system, at the
\* target directory, a series directory, a season directory or an entry of
\* one, has returned an empty set.
C24_ProbeErrorMeansEmpty ==
    (ProbeReturned /\ linkType = "soft" /\ faulty \cap DOMAIN tree # {})
        => existingState = {}

\* The episode places no directory above which, and which themselves, fail.
ReadablePlaces ==
    {p \in EpisodePlaces :
        \A n \in Len(TargetRoot)..Len(p) : SubSeq(p, 1, n) \notin faulty}

\* C25: a soft link probe that could not read a series directory or a season
\* directory has returned the identity of every symbolic link named like an
\* episode in the season directories that can be read.
C25_ProbeGoesOnWithSiblings ==
    (ProbeReturned /\ linkType = "soft") =>
        \A p \in ReadablePlaces :
            (tree[p].kind = "symlink" /\ EpisodeMatch(p[Len(p)]) # <<>>) =>
                UniqueId(SeriesNameOf(p[Len(p) - 2]),
                         EpisodeMatch(p[Len(p)])[1],
                         EpisodeMatch(p[Len(p)])[2]) \in existingState

\* The item of the n-th turn is passed by generateLinks.
Passed(n) ==
    \/ AlreadyLinked(n)
    \/ SeriesAt(n).type = "show"
        /\ (ItemAt(n).season = Null \/ ItemAt(n).episode = Null)

\* C28: a turn of generateLinks' loop that calls createLink calls it for the
\* item's video file and then for every sidecar of the item, in order,
\* whichever of the calls fail; an error other than EEXIST is reported,
\* changes nothing at its destination, throws nothing, and the loop goes on;
\* so when the loop ends, every item that was not passed has had all its
\* calls.
C28_LinkErrorsAreIsolated ==
    /\ [][(pc = "link" /\ attempts' # attempts) =>
            LET new == SubSeq(attempts', Len(attempts) + 1, Len(attempts'))
                item == ItemAt(cursor)
            IN  /\ Len(new) = 1 + Len(item.sidecarFiles)
                /\ new[1].file = item.videoFile
                /\ \A j \in 1..Len(item.sidecarFiles) :
                        new[j + 1].file = item.sidecarFiles[j]
                /\ \A k \in 1..Len(new) :
                        new[k].err \notin {"", "EEXIST"} =>
                            /\ new[k].logged
                            /\ new[k].destination \in DOMAIN tree' =>
                                /\ new[k].destination \in DOMAIN tree
                                /\ tree'[new[k].destination] =
                                        tree[new[k].destination]
                /\ ~thrown'
                /\ pc' = "link"
                /\ cursor' = cursor + 1]_vars
    /\ []((pc = "link" /\ cursor > Len(Worklist(finalBlueprint, 1))) =>
            \A n \in 1..Len(Worklist(finalBlueprint, 1)) :
                \/ Passed(n)
                \/ \A file \in {ItemAt(n).videoFile}
                                \cup Range(ItemAt(n).sidecarFiles) :
                        \E i \in 1..Len(attempts) : attempts[i].file = file)

\* The loop has ended; the link of a video file failed with EIO, so did the
\* link of its first sidecar, the link of its second sidecar was made after
\* them, and so was a link for the next record.
C28_Witness ==
    /\ pc = "link"
    /\ cursor > Len(Worklist(finalBlueprint, 1))
    /\ Len(attempts) >= 4
    /\ attempts[1].primary /\ attempts[1].err = "EIO"
    /\ ~attempts[2].primary /\ attempts[2].err = "EIO"
    /\ ~attempts[3].primary /\ attempts[3].err = ""
    /\ attempts[3].destination \in DOMAIN tree
    /\ attempts[4].series # attempts[1].series
    /\ attempts[4].err = ""

(***************************************************************************)
(* Properties of SpecRun                                                   *)
(***************************************************************************)

\* The step in which buildExistingState reads the target.
ProbeStep == pc = "run" /\ pc' # "run"

\* C30 as stated: the probe reads the target after the scan and the
\* consolidation, right before generateLinks, so that existingState is what
\* the probe finds in the target as it is when generateLinks begins.
C30_ProbeAfterConsolidation ==
    /\ [][ProbeStep => pc' = "link"]_vars
    /\ [](ProbeReturned =>
            existingState = BuildExistingState(tree, TargetRoot, linkType))

\* C30 amended: the phases of a run without --debug are the probe, the scan,
\* the consolidation, generateLinks, in this order: the probe reads the
\* target while both Blueprints are empty and is followed by the scan; the
\* raw Blueprint is filled after the probe, the final one after the scan,
\* and generateLinks acts after the consolidation; existingState is what
\* the probe finds in the target as it was when the run began.
C30_ProbeComesFirst ==
    /\ [][ProbeStep =>
            /\ rawBlueprint = EmptyBlueprint
            /\ finalBlueprint = EmptyBlueprint
            /\ pc' = "scanning"]_vars
    /\ [][rawBlueprint' # rawBlueprint =>
            pc = "scanning" /\ pc' = "consolidating"]_vars
    /\ [][(finalBlueprint' # finalBlueprint
                \/ canonicalTitleMap' # canonicalTitleMap) =>
            pc = "consolidating" /\ pc' = "link"]_vars
    /\ [][(attempts' # attempts \/ cursor' # cursor) => pc = "link"]_vars
    /\ [](pc # "run" =>
            existingState = BuildExistingState(tree1, TargetRoot, linkType))

\* generateLinks begins with a set that lacks the identity of a link made
\* in the target after the probe.
C30_Witness ==
    /\ ProbeReturned
    /\ linkType = "soft"
    /\ finalBlueprint # EmptyBlueprint
    /\ tree # tree1
    /\ existingState = BuildExistingState(tree1, TargetRoot, linkType)
    /\ existingState # BuildExistingState(tree, TargetRoot, linkType)

(***************************************************************************)
(* Properties of SpecCons: what the mapping names and what it leaves out   *)
(***************************************************************************)

\* C31: consolidation never fails on a mapping, and with a mapping the
\* output has a record for a canonical title exactly when a raw record
\* maps to it: a pair whose raw title is no key of the raw Blueprint is
\* skipped and creates no record.
C31_UnknownTitlesAreSkipped ==
    /\ pc # "failed"
    /\ Merged =>
          DOMAIN finalBlueprint.rec =
              {canonicalTitleMap.val[t] :
                  t \in DOMAIN rawBlueprint.rec \cap
                          DOMAIN canonicalTitleMap.val}

\* C37: the items generateLinks will visit in the consolidated Blueprint
\* are as many as the items of the raw Blueprint.
C37_ConsolidationLosesNoItem ==
    pc = "done" =>
        Len(Worklist(finalBlueprint, 1)) = ItemCount(rawBlueprint)

(***************************************************************************)
(* Properties of SpecScan: what the Blueprint holds                        *)
(***************************************************************************)

\* C33: in every state of the scan, every item of the raw Blueprint has a
\* title that is not empty and the type show or movie, is stored under its
\* title, and, when it is a show, has a season and an episode, in aiInfo
\* and in the item itself.
C33_ItemsAreNamed ==
    \A title \in DOMAIN rawBlueprint.rec :
        \A item \in Range(rawBlueprint.rec[title].items) :
            /\ item.aiInfo.title = title
            /\ title # <<>> /\ title # NullStr
            /\ item.aiInfo.type \in {"show", "movie"}
            /\ item.aiInfo.type = "show" =>
                  /\ item.aiInfo.season # Null /\ item.aiInfo.episode # Null
                  /\ item.season = item.aiInfo.season
                  /\ item.episode = item.aiInfo.episode

\* The scan has ended with a show and a movie in the Blueprint, after an
\* answer no name could be derived from was dropped.
C33_Witness ==
    /\ pc = "scanned"
    /\ \E item \in BlueprintItems : item.aiInfo.type = "show"
    /\ \E item \in BlueprintItems : item.aiInfo.type = "movie"
    /\ \E n \in 1..Len(chunks) : \E k \in 1..Len(chunks[n].tasks) :
          chunks[n].tasks[k].result = "unusable"

\* The videos of the folded chunks whose promise carried a value, in the
\* order of the chunks and, inside a chunk, of its tasks.
RECURSIVE FoldedVideos(_)
FoldedVideos(n) ==
    IF n = 0 THEN <<>>
    ELSE LET fulfilled ==
                SelectSeq(chunks[n].tasks, LAMBDA t : t.result = "item")
         IN  FoldedVideos(n - 1)
                \o [k \in 1..Len(fulfilled) |-> fulfilled[k].video]

\* The item made of a video file, its sidecars and their answers.
ItemOf(video) ==
    CHOOSE item \in BlueprintItems : item.videoFile.sourcePath = video

\* C32: the raw Blueprint depends on the order of the tasks only, not on
\* the order in which the requests of a chunk were answered: in every
\* state it is what addToBlueprint gives when the items of the chunks
\* folded so far are added one by one in the order of the chunks and of the
\* tasks in a chunk (records, vote tallies, record types, order of the
\* records and of the items of each).
C32_TaskOrderDecides ==
    LET videos == FoldedVideos(Len(chunks))
    IN  /\ \A k \in 1..Len(videos) : Occurrences(videos[k]) # {}
        /\ rawBlueprint =
              FoldAll(EmptyBlueprint,
                      [k \in 1..Len(videos) |-> ItemOf(videos[k])])

\* The scan has ended; two tasks of one chunk, whose requests were in
\* flight together and answered in either order, put their items into one
\* record, in the order of the tasks.
C32_Witness ==
    /\ pc = "scanned"
    /\ \E n \in 1..Len(chunks) : \E title \in DOMAIN rawBlueprint.rec :
          /\ Len(chunks[n].tasks) >= 2
          /\ Len(rawBlueprint.rec[title].items) >= 2
          /\ rawBlueprint.rec[title].items[1].videoFile.sourcePath =
                chunks[n].tasks[1].video
          /\ rawBlueprint.rec[title].items[2].videoFile.sourcePath =
                chunks[n].tasks[2].video

(***************************************************************************)
(* Properties of SpecScanFair                                              *)
(***************************************************************************)

\* C36: whatever concurrency the command line passes, the loop over the
\* chunks of every directory ends and the scan completes, when every
\* request is answered in the end.
C36_ScanCompletes == <>(pc = "scanned")

(***************************************************************************)
(* Properties of SpecSync: what a skip stands on                           *)
(***************************************************************************)

\* The destination generateLinks gives the video file of the show item of
\* the n-th turn.
PrimaryDestination(n) ==
    PathJoin(PathJoin(PathJoin(TargetRoot, SeriesDirName(SeriesAt(n))),
                      SeasonDir(ItemAt(n))),
             ShowBaseFilename(SeriesAt(n), ItemAt(n))
                \o ExtName(ItemAt(n).videoFile.originalFilename))

\* C34: in every run, when generateLinks is about to pass a show item
\* because its identity is in existingState, the destination of the
\* item's video file holds a link.
C34_SkippedItemsHaveTheirLink ==
    (pc = "link" /\ AlreadyLinked(cursor)) =>
        /\ PrimaryDestination(cursor) \in DOMAIN tree
        /\ tree[PrimaryDestination(cursor)].kind = "symlink"

(***************************************************************************)
(* Properties of SpecRun: where the links are made and how the probe reads *)
(* them                                                                    *)
(***************************************************************************)

\* C35: whatever the canonical title and the roles, no entry of the file
\* system is outside the target root, and every createLink call of
\* generateLinks is for a destination inside a directory below the target
\* root: at least the root, a series directory and a file name.
C35_LinksStayInSeriesDirectories ==
    /\ \A p \in DOMAIN tree : IsPrefix(TargetRoot, p)
    /\ \A k \in DOMAIN attempts :
          /\ IsPrefix(TargetRoot, attempts[k].destination)
          /\ Len(attempts[k].destination) >= Len(TargetRoot) + 2

\* C38: in soft link mode, for every video file of a show that generateLinks
\* has linked, buildExistingState on the target as it is now returns the
\* identity generateLinks computes for the item.
C38_ProbeFindsWhatWasLinked ==
    linkType = "soft" =>
        \A k \in DOMAIN attempts :
            LET series == finalBlueprint.rec[attempts[k].series]
            IN  (/\ attempts[k].primary
                 /\ attempts[k].err = ""
                 /\ series.type = "show") =>
                    \A item \in Range(series.items) :
                        item.videoFile = attempts[k].file =>
                            UniqueId(CleanTitle(series.canonicalTitle),
                                     item.season, item.episode)
                                \in BuildExistingState(tree, TargetRoot, "soft")
====
